---------------------------- MODULE Spec2Model ----------------------------
(***************************************************************************)
(* A model of the sales analytics system (tyadav/sales-analytics-system).  *)
(*                                                                         *)
(* Python strings are modelled as sequences of one-character strings, so   *)
(* that split, strip, replace, startswith, int() and float() are computed  *)
(* character by character as the interpreter computes them.  A float (the  *)
(* UnitPrice and every amount derived from it) is modelled as an integer   *)
(* number of tenths that carries MantissaBits significant bits: the result *)
(* of every float operation is rounded to the nearest such number, ties to *)
(* even, as IEEE 754 arithmetic rounds it.                                 *)
(* A transaction (a Python dict) is a function from field names to values; *)
(* a missing key is a name outside its DOMAIN.                             *)
(*                                                                         *)
(* Each group of functions has its own specification: its Init draws the   *)
(* arguments of a call from bounded pools, and one action per function     *)
(* applies it and stores what the call returned or that it raised.         *)
(***************************************************************************)
EXTENDS Integers, Sequences, FiniteSets, TLC

VARIABLES
    pc,            \* position of the caller: "start", then the call that was made
    raw_lines,     \* argument of parse_transactions: a sequence of lines
    transactions,  \* argument of the validators, aggregators and the enricher
    args,          \* the remaining arguments of the call (a record)
    result,        \* what the call returned, or [raised |-> TRUE, ...]
    files,         \* the files written: path -> sequence of lines
    locals         \* the local variables of main that are bound: name -> value

vars == <<pc, raw_lines, transactions, args, result, files, locals>>

(***************************************************************************)
(* Bounds of the model.                                                    *)
(***************************************************************************)
MaxLines == 2     \* longest raw_lines sequence

NoArgs == [none |-> TRUE]
NoResult == [none |-> TRUE]

\* No file has been written.
NoFiles == [path \in {} |-> <<>>]

\* main is not running: no local variable is bound.
NoLocals == [name \in {} |-> <<>>]

\* All sequences over S of length 0..n.
SeqUpTo(S, n) == UNION {[1..k -> S] : k \in 0..n}

(***************************************************************************)
(* Python string primitives.                                               *)
(***************************************************************************)
Digits == {"0", "1", "2", "3", "4", "5", "6", "7", "8", "9"}

DigitVal(c) ==
    CASE c = "0" -> 0 [] c = "1" -> 1 [] c = "2" -> 2 [] c = "3" -> 3
      [] c = "4" -> 4 [] c = "5" -> 5 [] c = "6" -> 6 [] c = "7" -> 7
      [] c = "8" -> 8 [] c = "9" -> 9

\* str.isspace() of one character; the pools hold the blank as whitespace.
IsSpace(c) == c = " "

RECURSIVE LStrip(_)
LStrip(s) == IF s # <<>> /\ IsSpace(Head(s)) THEN LStrip(Tail(s)) ELSE s

RECURSIVE RStrip(_)
RStrip(s) ==
    IF s # <<>> /\ IsSpace(s[Len(s)]) THEN RStrip(SubSeq(s, 1, Len(s) - 1)) ELSE s

\* str.strip()
strip(s) == RStrip(LStrip(s))

\* str.replace(c, ""): every occurrence of the character c removed.
remove(s, c) == SelectSeq(s, LAMBDA ch : ch # c)

\* str.startswith(c) for a one-character prefix.
startswith(s, c) == Len(s) >= 1 /\ s[1] = c

\* str.split(sep) for a one-character separator: always at least one field.
RECURSIVE split(_, _)
split(s, sep) ==
    IF \A i \in 1..Len(s) : s[i] # sep
    THEN <<s>>
    ELSE LET i == CHOOSE k \in 1..Len(s) :
                      s[k] = sep /\ \A j \in 1..(k - 1) : s[j] # sep
         IN  <<SubSeq(s, 1, i - 1)>> \o split(SubSeq(s, i + 1, Len(s)), sep)

\* sep.join(fields)
RECURSIVE join(_, _)
join(fields, sep) ==
    IF fields = <<>> THEN <<>>
    ELSE IF Len(fields) = 1 THEN fields[1]
    ELSE fields[1] \o <<sep>> \o join(Tail(fields), sep)

(***************************************************************************)
(* Floating point.  A double carries 53 significant bits; the model's      *)
(* floats carry MantissaBits, so that rounding happens at the magnitudes   *)
(* the pools hold.                                                         *)
(***************************************************************************)
MantissaBits == 4

RECURSIVE Pow2(_)
Pow2(n) == IF n = 0 THEN 1 ELSE 2 * Pow2(n - 1)

\* The spacing of the floats around the magnitude x >= 0.
RECURSIVE Ulp(_, _)
Ulp(x, e) == IF x < Pow2(MantissaBits + e) THEN Pow2(e) ELSE Ulp(x, e + 1)

\* The float nearest to the exact value x, ties to even.
RECURSIVE fl(_)
fl(x) ==
    IF x < 0 THEN -fl(-x)
    ELSE LET ulp == Ulp(x, 0)
             q   == x \div ulp
             r   == x % ulp
         IN  IF 2 * r < ulp THEN q * ulp
             ELSE IF 2 * r > ulp THEN (q + 1) * ulp
             ELSE IF q % 2 = 0 THEN q * ulp
             ELSE (q + 1) * ulp

AllDigits(s) == s # <<>> /\ \A i \in 1..Len(s) : s[i] \in Digits

RECURSIVE DigitsValue(_)
DigitsValue(s) ==
    IF s = <<>> THEN 0
    ELSE DigitsValue(SubSeq(s, 1, Len(s) - 1)) * 10 + DigitVal(s[Len(s)])

\* The literal without surrounding whitespace and without its sign.
Unsigned(s) ==
    LET t == strip(s) IN IF t # <<>> /\ t[1] \in {"+", "-"} THEN Tail(t) ELSE t

Sign(s) == LET t == strip(s) IN IF t # <<>> /\ t[1] = "-" THEN -1 ELSE 1

\* int(s) returns (does not raise ValueError): optional whitespace, optional
\* sign, at least one digit.
IntParses(s) == AllDigits(Unsigned(s))

IntValue(s) == Sign(s) * DigitsValue(Unsigned(s))

\* float(s) returns: optional whitespace, optional sign, digits with at most
\* one point and a digit on at least one side of it.
FloatParses(s) ==
    LET parts == split(Unsigned(s), ".") IN
    /\ Len(parts) \in {1, 2}
    /\ \A i \in 1..Len(parts) : parts[i] = <<>> \/ AllDigits(parts[i])
    /\ \E i \in 1..Len(parts) : parts[i] # <<>>

\* The value of float(s), in tenths (the pools hold at most one fractional
\* digit).
FloatValue(s) ==
    LET parts == split(Unsigned(s), ".")
        frac == IF Len(parts) = 2 /\ parts[2] # <<>> THEN DigitVal(parts[2][1]) ELSE 0
    IN  Sign(s) * fl(DigitsValue(parts[1]) * 10 + frac)

(***************************************************************************)
(* utils/file_handler.py: parse_transactions                               *)
(***************************************************************************)
\* Mutant: UnitPrice converted with int() instead of float().
ParseRaisesValueError_IntPrice(parts) ==
    ~IntParses(parts[5]) \/ ~IntParses(remove(parts[6], ","))

\* The except ValueError branch: int(parts[4]) or float(parts[5]) raised.
ParseRaisesValueError(parts) ==
    ~IntParses(parts[5]) \/ ~FloatParses(remove(parts[6], ","))

\* The dict with the commas of the name kept.
ParseLine_KeepCommas(parts) ==
    [TransactionID |-> parts[1],
     Date          |-> parts[2],
     ProductID     |-> parts[3],
     ProductName   |-> strip(parts[4]),
     Quantity      |-> IntValue(parts[5]),
     UnitPrice     |-> FloatValue(remove(parts[6], ",")),
     CustomerID    |-> parts[7],
     Region        |-> parts[8]]

\* The dict built from the 8 fields (Python's parts[0..7] are parts[1..8] here).
ParseLine(parts) ==
    [TransactionID |-> parts[1],
     Date          |-> parts[2],
     ProductID     |-> parts[3],
     ProductName   |-> strip(remove(parts[4], ",")),
     Quantity      |-> IntValue(parts[5]),
     UnitPrice     |-> FloatValue(remove(parts[6], ",")),
     CustomerID    |-> parts[7],
     Region        |-> parts[8]]

\* The number of fields a line must split into.
FieldCount == 8

RECURSIVE parse_transactions(_)
parse_transactions(lines) ==
    IF lines = <<>> THEN <<>>
    ELSE LET parts == split(Head(lines), "|")
             rest  == parse_transactions(Tail(lines))
         IN  IF Len(parts) # FieldCount THEN rest
             ELSE IF ParseRaisesValueError(parts) THEN rest
             ELSE <<ParseLine(parts)>> \o rest

\* What the caller of parse_transactions observes.  The only exception the
\* body can raise on strings is the ValueError of int() or float(), which the
\* loop catches, so the call always returns.
parse_transactions_call(lines) ==
    [raised |-> FALSE, value |-> parse_transactions(lines)]

(***************************************************************************)
(* Raw lines the parser is driven with: one well-formed base line, the     *)
(* base line with one field changed, and lines with a wrong field count.   *)
(***************************************************************************)
BaseFields ==
    << <<"T", "1">>, <<"D", "1">>, <<"P", "1">>, <<"L", "a", "p">>,
       <<"2">>, <<"1", ",", "2">>, <<"C", "1">>, <<"N">> >>

NameTexts == { <<"M", ",", "W">>, <<" ", "K", ",", " ">>, <<"K", " ", ",">> }

QuantityTexts ==
    { <<"0">>, <<"-", "1">>, <<"x">>, <<>>, <<" ", "3">>, <<"1", ".", "5">>,
      <<"1", ",", "0">> }

UnitPriceTexts ==
    { <<"1", ".", "5">>, <<"x">>, <<>>, <<"0">>, <<".">>, <<",">>,
      <<"-", "3">>, <<"1", ".", "2", ".", "3">>, <<" ", ".", "5">> }

WithField(fields, i, text) == [fields EXCEPT ![i] = text]

LinePool ==
    {join(BaseFields, "|")}
    \cup {join(WithField(BaseFields, 1, <<"T", "2">>), "|")}
    \cup {join(WithField(BaseFields, 4, t), "|") : t \in NameTexts}
    \cup {join(WithField(BaseFields, 5, t), "|") : t \in QuantityTexts}
    \cup {join(WithField(BaseFields, 6, t), "|") : t \in UnitPriceTexts}
    \cup {join(SubSeq(BaseFields, 1, 7), "|"),          \* Region missing
          join(BaseFields \o << <<"x">> >>, "|"),        \* a ninth field
          <<>>}                                          \* an empty line

InitParse ==
    /\ pc = "start"
    /\ raw_lines \in SeqUpTo(LinePool, MaxLines)
    /\ transactions = <<>>
    /\ args = NoArgs
    /\ result = NoResult
    /\ files = NoFiles
    /\ locals = NoLocals

ParseTransactions ==
    /\ pc = "start"
    /\ pc' = "parse_transactions"
    /\ result' = parse_transactions_call(raw_lines)
    /\ UNCHANGED <<raw_lines, transactions, args, files, locals>>

NextParse == ParseTransactions

SpecParse == InitParse /\ [][NextParse]_vars

(***************************************************************************)
(* C1.  parse_transactions never raises and returns exactly the            *)
(* order-preserving subsequence of the well-formed lines: a line yields a  *)
(* record iff splitting it on '|' gives exactly 8 fields, field 4 parses   *)
(* as an integer and field 5 with commas removed parses as a decimal; so   *)
(* the output is never longer than the input.                              *)
(***************************************************************************)
WellFormedLine(line) ==
    LET f == split(line, "|") IN
    /\ Len(f) = 8
    /\ IntParses(f[5])
    /\ FloatParses(remove(f[6], ","))

RecordOfLine(line) == ParseLine(split(line, "|"))

C1_ParseSubsequence ==
    pc = "parse_transactions" =>
        LET good == SelectSeq(raw_lines, WellFormedLine) IN
        /\ ~result.raised
        /\ Len(result.value) = Len(good)
        /\ \A i \in 1..Len(good) : result.value[i] = RecordOfLine(good[i])
        /\ Len(result.value) <= Len(raw_lines)

\* A call on two lines of which the first is skipped and the second is kept.
C1_Witness ==
    /\ pc = "parse_transactions"
    /\ Len(raw_lines) = 2
    /\ ~WellFormedLine(raw_lines[1])
    /\ WellFormedLine(raw_lines[2])
    /\ Len(result.value) = 1
    /\ result.value[1].TransactionID = <<"T", "1">>

(***************************************************************************)
(* Values shared by the validators, the aggregators and the enricher.      *)
(***************************************************************************)
\* Python's None and a present value, for optional arguments and fields.
None == [some |-> FALSE]
Some(v) == [some |-> TRUE, val |-> v]

\* dict.get(key, default)
get(tx, key, default) == IF key \in DOMAIN tx THEN tx[key] ELSE default

\* The dict without one key.
Without(tx, key) == [k \in (DOMAIN tx) \ {key} |-> tx[k]]

\* tx["Quantity"] * tx["UnitPrice"]: an int times a float.
Amount(tx) == fl(tx.Quantity * tx.UnitPrice)

\* A record as the parser produces it: amount 2 * 1.0.
BaseTx ==
    [TransactionID |-> <<"T", "1">>, Date |-> <<"D", "1">>,
     ProductID |-> <<"P", "1">>, ProductName |-> <<"L">>,
     Quantity |-> 2, UnitPrice |-> 10,
     CustomerID |-> <<"C", "1">>, Region |-> <<"N">>]

(***************************************************************************)
(* utils/validator.py: validate_transactions                               *)
(***************************************************************************)
\* Mutant: a record passes when either number is positive.
PositiveQtyAndPrice_Or(tx) ==
    get(tx, "Quantity", 0) > 0 \/ get(tx, "UnitPrice", 0) > 0

\* qty = tx.get("Quantity", 0); price = tx.get("UnitPrice", 0);
\* qty > 0 and price > 0
PositiveQtyAndPrice(tx) ==
    LET qty   == get(tx, "Quantity", 0)
        price == get(tx, "UnitPrice", 0)
    IN  qty > 0 /\ price > 0

\* The for loop, with the two lists built so far.
RECURSIVE validate_transactions_loop(_, _, _)
validate_transactions_loop(txs, valid, invalid) ==
    IF txs = <<>> THEN [valid |-> valid, invalid |-> invalid]
    ELSE IF PositiveQtyAndPrice(Head(txs))
         THEN validate_transactions_loop(Tail(txs), Append(valid, Head(txs)), invalid)
         ELSE validate_transactions_loop(Tail(txs), valid, Append(invalid, Head(txs)))

validate_transactions(txs) == validate_transactions_loop(txs, <<>>, <<>>)

\* Records validate_transactions is driven with.
ValidatePool ==
    { BaseTx,
      [BaseTx EXCEPT !.TransactionID = <<"X", "2">>, !.ProductID = <<"Q", "2">>,
                     !.CustomerID = <<"D", "2">>, !.Region = <<>>],
      Without([BaseTx EXCEPT !.TransactionID = <<"T", "3">>], "Region"),
      [BaseTx EXCEPT !.TransactionID = <<"T", "4">>, !.Quantity = 0],
      [BaseTx EXCEPT !.TransactionID = <<"T", "5">>, !.UnitPrice = 0],
      [BaseTx EXCEPT !.TransactionID = <<"T", "6">>, !.Quantity = -1, !.UnitPrice = -5],
      Without([BaseTx EXCEPT !.TransactionID = <<"T", "7">>], "Quantity"),
      Without([BaseTx EXCEPT !.TransactionID = <<"T", "8">>], "UnitPrice") }

MaxTxValidate == 3     \* longest list given to validate_transactions

InitValidate ==
    /\ pc = "start"
    /\ raw_lines = <<>>
    /\ transactions \in SeqUpTo(ValidatePool, MaxTxValidate)
    /\ args = NoArgs
    /\ result = NoResult
    /\ files = NoFiles
    /\ locals = NoLocals

ValidateTransactions ==
    /\ pc = "start"
    /\ pc' = "validate_transactions"
    /\ result' = validate_transactions(transactions)
    /\ UNCHANGED <<raw_lines, transactions, args, files, locals>>

NextValidate == ValidateTransactions

SpecValidate == InitValidate /\ [][NextValidate]_vars

(***************************************************************************)
(* C2.  validate_transactions partitions its input: every input record is  *)
(* in exactly one of the two returned lists, in input order; it is in the  *)
(* valid list iff Quantity > 0 and UnitPrice > 0, a missing Quantity or    *)
(* UnitPrice counting as 0; no other field is consulted.                   *)
(***************************************************************************)
C2_QtyOf(tx) == IF "Quantity" \in DOMAIN tx THEN tx.Quantity ELSE 0
C2_PriceOf(tx) == IF "UnitPrice" \in DOMAIN tx THEN tx.UnitPrice ELSE 0
C2_Rule(tx) == C2_QtyOf(tx) > 0 /\ C2_PriceOf(tx) > 0
C2_NotRule(tx) == ~C2_Rule(tx)

C2_ValidatePartition ==
    pc = "validate_transactions" =>
        /\ result.valid = SelectSeq(transactions, C2_Rule)
        /\ result.invalid = SelectSeq(transactions, C2_NotRule)
        /\ Len(result.valid) + Len(result.invalid) = Len(transactions)

\* A list with a record whose IDs carry no prefix (valid all the same), a
\* record without Quantity (invalid) and a well-formed record.
C2_Witness ==
    /\ pc = "validate_transactions"
    /\ Len(transactions) = 3
    /\ Len(result.valid) = 2
    /\ result.valid[1].TransactionID = <<"X", "2">>
    /\ Len(result.invalid) = 1
    /\ "Quantity" \notin DOMAIN result.invalid[1]

(***************************************************************************)
(* utils/validator.py: validate_and_filter                                 *)
(***************************************************************************)
required_fields ==
    {"TransactionID", "Date", "ProductID", "ProductName",
     "Quantity", "UnitPrice", "CustomerID", "Region"}

\* all(field in tx for field in required_fields)
HasRequiredFields(tx) == \A f \in required_fields : f \in DOMAIN tx

\* Mutant: the CustomerID prefix is not checked.
HasIdPrefixes_NoCustomer(tx) ==
    /\ startswith(tx.TransactionID, "T")
    /\ startswith(tx.ProductID, "P")

\* The three startswith tests of the second if.
HasIdPrefixes(tx) ==
    /\ startswith(tx.TransactionID, "T")
    /\ startswith(tx.ProductID, "P")
    /\ startswith(tx.CustomerID, "C")

\* Step 1: the validation loop, with valid and invalid_count so far.
RECURSIVE vf_validation_loop(_, _, _)
vf_validation_loop(txs, valid, invalid_count) ==
    IF txs = <<>> THEN [valid |-> valid, invalid_count |-> invalid_count]
    ELSE LET tx == Head(txs) IN
         IF ~HasRequiredFields(tx)
         THEN vf_validation_loop(Tail(txs), valid, invalid_count + 1)
         ELSE IF ~HasIdPrefixes(tx)
         THEN vf_validation_loop(Tail(txs), valid, invalid_count + 1)
         ELSE IF tx.Quantity <= 0 \/ tx.UnitPrice <= 0
         THEN vf_validation_loop(Tail(txs), valid, invalid_count + 1)
         ELSE vf_validation_loop(Tail(txs), Append(valid, tx), invalid_count)

\* Step 2: min(amounts) and max(amounts) raise ValueError on an empty list.
AmountRangeRaises(valid) == valid = <<>>

\* `if region:` an argument that is None or the empty string is falsy.
RegionGiven(region) == region.some /\ region.val # <<>>

\* Mutant: the region is compared without regard to case of the first letter.
RegionStep_Caseless(filtered, region) ==
    LET low(r) == IF r = <<"N">> THEN <<"n">> ELSE r IN
    IF RegionGiven(region)
    THEN SelectSeq(filtered, LAMBDA tx : low(tx.Region) = low(region.val))
    ELSE filtered

\* Step 3, first filter.
RegionStep(filtered, region) ==
    IF RegionGiven(region)
    THEN SelectSeq(filtered, LAMBDA tx : tx.Region = region.val)
    ELSE filtered

AmountGiven(min_amount, max_amount) == min_amount.some \/ max_amount.some

\* Mutant: the bounds are exclusive.
InAmountRange_Exclusive(tx, min_amount, max_amount) ==
    /\ (~min_amount.some \/ Amount(tx) > min_amount.val)
    /\ (~max_amount.some \/ Amount(tx) < max_amount.val)

InAmountRange(tx, min_amount, max_amount) ==
    /\ (~min_amount.some \/ Amount(tx) >= min_amount.val)
    /\ (~max_amount.some \/ Amount(tx) <= max_amount.val)

\* Step 3, second filter.
AmountStep(filtered, min_amount, max_amount) ==
    IF AmountGiven(min_amount, max_amount)
    THEN SelectSeq(filtered, LAMBDA tx : InAmountRange(tx, min_amount, max_amount))
    ELSE filtered

\* validate_and_filter whose amount step measures its removals from the
\* validated list, `before` not being taken again after the region step.
validate_and_filter_StaleBefore(txs, region, min_amount, max_amount) ==
    LET step1        == vf_validation_loop(txs, <<>>, 0)
        valid        == step1.valid
        after_region == RegionStep(valid, region)
        filtered     == AmountStep(after_region, min_amount, max_amount)
    IN  IF AmountRangeRaises(valid)
        THEN [raised |-> TRUE, error |-> "ValueError"]
        ELSE [raised        |-> FALSE,
              filtered      |-> filtered,
              invalid_count |-> step1.invalid_count,
              summary       |->
                  [total_input        |-> Len(txs),
                   invalid            |-> step1.invalid_count,
                   filtered_by_region |-> Len(valid) - Len(after_region),
                   filtered_by_amount |-> IF AmountGiven(min_amount, max_amount)
                                          THEN Len(valid) - Len(filtered) ELSE 0,
                   final_count        |-> Len(filtered)]]

validate_and_filter(txs, region, min_amount, max_amount) ==
    LET step1        == vf_validation_loop(txs, <<>>, 0)
        valid        == step1.valid
        after_region == RegionStep(valid, region)
        filtered     == AmountStep(after_region, min_amount, max_amount)
    IN  IF AmountRangeRaises(valid)
        THEN [raised |-> TRUE, error |-> "ValueError"]
        ELSE [raised        |-> FALSE,
              filtered      |-> filtered,
              invalid_count |-> step1.invalid_count,
              summary       |->
                  [total_input        |-> Len(txs),
                   invalid            |-> step1.invalid_count,
                   filtered_by_region |-> Len(valid) - Len(after_region),
                   filtered_by_amount |-> Len(after_region) - Len(filtered),
                   final_count        |-> Len(filtered)]]

\* Records validate_and_filter is driven with: amounts 0.5, 2.0 and 3.0 in
\* regions N, n and S, and one record failing each validation test.
FilterPool ==
    { BaseTx,
      [BaseTx EXCEPT !.TransactionID = <<"T", "2">>, !.Region = <<"n">>],
      [BaseTx EXCEPT !.TransactionID = <<"T", "3">>, !.Region = <<"S">>,
                     !.Quantity = 1, !.UnitPrice = 5],
      [BaseTx EXCEPT !.TransactionID = <<"T", "4">>, !.Quantity = 3],
      [BaseTx EXCEPT !.TransactionID = <<"X", "5">>],
      [BaseTx EXCEPT !.ProductID = <<"Q", "6">>],
      [BaseTx EXCEPT !.CustomerID = <<>>],
      [BaseTx EXCEPT !.TransactionID = <<"T", "8">>, !.Quantity = 0],
      [BaseTx EXCEPT !.TransactionID = <<"T", "9">>, !.UnitPrice = -5],
      Without([BaseTx EXCEPT !.TransactionID = <<"T", "0">>], "Date") }

RegionArgs == {None, Some(<<>>), Some(<<"N">>), Some(<<"S">>)}
MinAmountArgs == {None, Some(20)}
MaxAmountArgs == {None, Some(5), Some(20)}

MaxTxFilter == 3     \* longest list given to validate_and_filter

InitFilter ==
    /\ pc = "start"
    /\ raw_lines = <<>>
    /\ transactions \in SeqUpTo(FilterPool, MaxTxFilter)
    /\ args \in [region : RegionArgs, min_amount : MinAmountArgs,
                 max_amount : MaxAmountArgs]
    /\ result = NoResult
    /\ files = NoFiles
    /\ locals = NoLocals

ValidateAndFilter ==
    /\ pc = "start"
    /\ pc' = "validate_and_filter"
    /\ result' = validate_and_filter(transactions, args.region,
                                     args.min_amount, args.max_amount)
    /\ UNCHANGED <<raw_lines, transactions, args, files, locals>>

NextFilter == ValidateAndFilter

SpecFilter == InitFilter /\ [][NextFilter]_vars

\* The number of indices of s whose element satisfies P.
CountIf(s, P(_)) == Cardinality({i \in 1..Len(s) : P(s[i])})

Returned == pc = "validate_and_filter" /\ ~result.raised

(***************************************************************************)
(* C3.  In validate_and_filter a record survives validation iff all 8      *)
(* required fields are present, TransactionID starts with 'T', ProductID   *)
(* with 'P', CustomerID with 'C', Quantity > 0 and UnitPrice > 0; the      *)
(* returned invalid_count (and summary.invalid) is the number of input     *)
(* records failing this rule, and no such record is in the returned set.   *)
(* Checked on every call that returns; with no filter argument the         *)
(* returned set is exactly the records that survive validation.            *)
(***************************************************************************)
C3_Rule(tx) ==
    /\ {"TransactionID", "Date", "ProductID", "ProductName", "Quantity",
        "UnitPrice", "CustomerID", "Region"} \subseteq DOMAIN tx
    /\ Len(tx.TransactionID) > 0 /\ tx.TransactionID[1] = "T"
    /\ Len(tx.ProductID) > 0 /\ tx.ProductID[1] = "P"
    /\ Len(tx.CustomerID) > 0 /\ tx.CustomerID[1] = "C"
    /\ tx.Quantity > 0
    /\ tx.UnitPrice > 0

C3_Fails(tx) == ~C3_Rule(tx)

C3_NoFilter ==
    ~args.region.some /\ ~args.min_amount.some /\ ~args.max_amount.some

C3_StrictValidation ==
    Returned =>
        /\ result.invalid_count = CountIf(transactions, C3_Fails)
        /\ result.summary.invalid = CountIf(transactions, C3_Fails)
        /\ \A i \in 1..Len(result.filtered) : C3_Rule(result.filtered[i])
        /\ C3_NoFilter => result.filtered = SelectSeq(transactions, C3_Rule)

\* An unfiltered call on a record without the 'C' prefix, a record with
\* Quantity 0 and a valid record: two are counted invalid, one is returned.
C3_Witness ==
    /\ Returned
    /\ C3_NoFilter
    /\ Len(transactions) = 3
    /\ \E i \in 1..3 : transactions[i].CustomerID = <<>>
    /\ \E i \in 1..3 : "Quantity" \in DOMAIN transactions[i]
                       /\ transactions[i].Quantity = 0
    /\ result.invalid_count = 2
    /\ Len(result.filtered) = 1

(***************************************************************************)
(* C4.  validate_and_filter applies the region filter before the amount    *)
(* filter.  As amended: when a non-empty region is supplied,               *)
(* filtered_by_region is the number of validated records whose Region is   *)
(* not exactly equal to it (an empty-string region filters nothing);       *)
(* filtered_by_amount is the number of records that survived the region    *)
(* step and whose Quantity*UnitPrice lies outside the supplied inclusive   *)
(* bounds, a record whose amount equals a bound being kept; a record       *)
(* removed by the region step is never counted in filtered_by_amount.      *)
(***************************************************************************)
C4_Validated == SelectSeq(transactions, C3_Rule)

C4_OutsideBounds(tx) ==
    \/ args.min_amount.some /\ tx.Quantity * tx.UnitPrice < args.min_amount.val
    \/ args.max_amount.some /\ tx.Quantity * tx.UnitPrice > args.max_amount.val

C4_InsideBounds(tx) == ~C4_OutsideBounds(tx)

C4_OtherRegion(tx) == tx.Region # args.region.val

C4_SameRegion(tx) == tx.Region = args.region.val

\* The claim's filter order and counts, for a given reading of "a region
\* is supplied".
C4_Counts(supplied) ==
    LET survived == IF supplied THEN SelectSeq(C4_Validated, C4_SameRegion)
                    ELSE C4_Validated
    IN  /\ supplied =>
              result.summary.filtered_by_region =
                  CountIf(C4_Validated, C4_OtherRegion)
        /\ result.summary.filtered_by_amount = CountIf(survived, C4_OutsideBounds)
        /\ result.filtered = SelectSeq(survived, C4_InsideBounds)

\* The claim as stated: any region argument other than None is "supplied".
C4_Original == Returned => C4_Counts(args.region.some)

\* The claim as amended: a supplied region is a non-empty one.
C4_RegionThenAmount ==
    Returned => C4_Counts(args.region.some /\ args.region.val # <<>>)

\* region N, bounds [2.0, 2.0]: the S record (amount 0.5, outside the bounds)
\* is removed by the region step and not counted by the amount step; the N
\* record of amount 2.0 is kept and the N record of amount 3.0 is removed.
C4_Witness ==
    /\ Returned
    /\ args.region = Some(<<"N">>)
    /\ args.min_amount = Some(20)
    /\ args.max_amount = Some(20)
    /\ Len(transactions) = 3
    /\ \E i \in 1..3 : C3_Rule(transactions[i]) /\ transactions[i].Region = <<"S">>
    /\ result.summary.filtered_by_region = 1
    /\ result.summary.filtered_by_amount = 1
    /\ Len(result.filtered) = 1
    /\ result.filtered[1].Quantity * result.filtered[1].UnitPrice = 20

(***************************************************************************)
(* C5.  For every input list, including an empty list and a list in which  *)
(* no record passes validation, and for any filter arguments,              *)
(* validate_and_filter returns the triple (filtered set, invalid count,    *)
(* summary record) and does not raise.                                     *)
(***************************************************************************)
C5_AlwaysReturns ==
    pc = "validate_and_filter" =>
        /\ ~result.raised
        /\ {"filtered", "invalid_count", "summary"} \subseteq DOMAIN result

(***************************************************************************)
(* utils/data_processor.py: the aggregators.                               *)
(***************************************************************************)
\* Float addition.
fadd(a, b) == fl(a + b)

\* sum(...) and the += accumulations: a left fold of float additions.
RECURSIVE FoldSum(_, _)
FoldSum(acc, s) == IF s = <<>> THEN acc ELSE FoldSum(fadd(acc, Head(s)), Tail(s))

py_sum(s) == FoldSum(0, s)

\* Kahan summation, float operation by float operation: the sum and the
\* running compensation.
RECURSIVE KahanFold(_, _, _)
KahanFold(sumx, compensation, s) ==
    IF s = <<>> THEN sumx
    ELSE LET y == fl(Head(s) - compensation)
             t == fl(sumx + y)
         IN  KahanFold(t, fl(fl(t - sumx) - y), Tail(s))

kahan_sum(s) == KahanFold(0, 0, s)

\* The sum of a column within a group (groupby(...).agg(("Revenue", "sum"))).
\* pandas adds the values of a group in row order; releases from 1.2 on do it
\* with Kahan summation, earlier ones with a plain accumulation.
SumAlgorithms == {"plain", "kahan"}

group_sum(algorithm, s) == IF algorithm = "kahan" THEN kahan_sum(s) ELSE py_sum(s)

\* A sum of ints (Quantity): exact.
RECURSIVE FoldSumInt(_)
FoldSumInt(s) == IF s = <<>> THEN 0 ELSE Head(s) + FoldSumInt(Tail(s))

\* [tx["Quantity"] * tx["UnitPrice"] for tx in txs]
Amounts(txs) == [i \in 1..Len(txs) |-> Amount(txs[i])]

\* The rows of txs whose field has the value v, in input order.
RowsWith(txs, field, v) == SelectSeq(txs, LAMBDA tx : tx[field] = v)

\* The distinct values of a field.
KeysOf(txs, field) == {txs[i][field] : i \in 1..Len(txs)}

\* The distinct values of a field in order of first occurrence (the key
\* order of a dict filled in a loop).
RECURSIVE FirstSeen(_, _, _)
FirstSeen(txs, field, seen) ==
    IF txs = <<>> THEN seen
    ELSE IF \E i \in 1..Len(seen) : seen[i] = Head(txs)[field]
         THEN FirstSeen(Tail(txs), field, seen)
         ELSE FirstSeen(Tail(txs), field, Append(seen, Head(txs)[field]))

\* All orders in which the elements of the finite set S can be listed.
Orders(S) ==
    {p \in [1..Cardinality(S) -> S] : \A i, j \in 1..Cardinality(S) : i # j => p[i] # p[j]}

\* sort_values(col, ascending=False): the rows by col, largest first; the
\* order among rows with equal col is not specified.
DescendingOrders(rows, col) ==
    {p \in Orders(rows) : \A i \in 1..(Len(p) - 1) : p[i][col] >= p[i + 1][col]}

\* DataFrame.head(n): the first n rows; all but the last -n for a negative n.
head(rows, n) ==
    IF n >= 0 THEN SubSeq(rows, 1, IF n < Len(rows) THEN n ELSE Len(rows))
    ELSE SubSeq(rows, 1, IF Len(rows) + n > 0 THEN Len(rows) + n ELSE 0)

\* The columns of pd.DataFrame(transactions): the keys of the dicts; none
\* for an empty list.
Columns(txs) == UNION {DOMAIN txs[i] : i \in 1..Len(txs)}

\* df[col] raises KeyError when the frame has no such column.
KeyErrorOn(txs, cols) == \E c \in cols : c \notin Columns(txs)

KeyError == [raised |-> TRUE, error |-> "KeyError"]
ValueError == [raised |-> TRUE, error |-> "ValueError"]

\* Mutant: the revenue is the sum of the unit prices.
calculate_total_revenue_PriceOnly(txs) ==
    [raised |-> FALSE, value |-> py_sum([i \in 1..Len(txs) |-> txs[i].UnitPrice])]

calculate_total_revenue(txs) ==
    [raised |-> FALSE, value |-> py_sum(Amounts(txs))]

\* Mutant: no guard for the empty list.
average_order_value_NoGuard(txs) ==
    IF Len(txs) = 0 THEN [raised |-> TRUE, error |-> "ZeroDivisionError"]
    ELSE [raised |-> FALSE, value |-> [num |-> py_sum(Amounts(txs)), den |-> Len(txs)]]

\* The quotient total / len(transactions) is kept as the fraction num/den;
\* 0.0 is 0/1.
average_order_value(txs) ==
    IF txs = <<>> THEN [raised |-> FALSE, value |-> [num |-> 0, den |-> 1]]
    ELSE [raised |-> FALSE, value |-> [num |-> py_sum(Amounts(txs)), den |-> Len(txs)]]

\* Mutant: the group of a region holds only the first of its transactions.
RegionRow_FirstOnly(algorithm, txs, region) ==
    LET rows == SubSeq(RowsWith(txs, "Region", region), 1, 1) IN
    [Region |-> region, Sales |-> group_sum(algorithm, Amounts(rows)),
     Transactions |-> Len(rows)]

\* groupby("Region").agg(Sales=("Revenue", "sum"),
\*                       Transactions=("TransactionID", "count"))
RegionRow(algorithm, txs, region) ==
    LET rows == RowsWith(txs, "Region", region) IN
    [Region |-> region, Sales |-> group_sum(algorithm, Amounts(rows)),
     Transactions |-> Len(rows)]

\* The results region_performance can return.
region_performance(txs) ==
    IF KeyErrorOn(txs, {"Quantity", "UnitPrice", "Region", "TransactionID"})
    THEN {KeyError}
    ELSE {[raised |-> FALSE, rows |-> p] :
             p \in UNION {DescendingOrders(
                              {RegionRow(algorithm, txs, r) : r \in KeysOf(txs, "Region")},
                              "Sales") : algorithm \in SumAlgorithms}}

\* groupby("ProductName").agg(Quantity=("Quantity", "sum"),
\*                            Revenue=("Revenue", "sum"))
ProductRow(algorithm, txs, name) ==
    LET rows == RowsWith(txs, "ProductName", name) IN
    [ProductName |-> name,
     Quantity    |-> FoldSumInt([i \in 1..Len(rows) |-> rows[i].Quantity]),
     Revenue     |-> group_sum(algorithm, Amounts(rows))]

\* top_products sorting with ascending=True.
top_products_Ascending(txs, n) ==
    IF KeyErrorOn(txs, {"Quantity", "UnitPrice", "ProductName"})
    THEN {KeyError}
    ELSE {[raised |-> FALSE,
           rows |-> head([i \in 1..Len(p) |-> p[Len(p) + 1 - i]], n)] :
             p \in UNION {DescendingOrders(
                              {ProductRow(algorithm, txs, k) :
                                  k \in KeysOf(txs, "ProductName")},
                              "Revenue") : algorithm \in SumAlgorithms}}

\* The results top_products can return.
top_products(txs, n) ==
    IF KeyErrorOn(txs, {"Quantity", "UnitPrice", "ProductName"})
    THEN {KeyError}
    ELSE {[raised |-> FALSE, rows |-> head(p, n)] :
             p \in UNION {DescendingOrders(
                              {ProductRow(algorithm, txs, k) :
                                  k \in KeysOf(txs, "ProductName")},
                              "Revenue") : algorithm \in SumAlgorithms}}

\* groupby("CustomerID").agg(TotalSpent=("Revenue", "sum"),
\*                           Orders=("TransactionID", "count"))
CustomerRow(algorithm, txs, cid) ==
    LET rows == RowsWith(txs, "CustomerID", cid) IN
    [CustomerID |-> cid, TotalSpent |-> group_sum(algorithm, Amounts(rows)),
     Orders |-> Len(rows)]

\* The results top_customers can return.
top_customers(txs, n) ==
    IF KeyErrorOn(txs, {"Quantity", "UnitPrice", "CustomerID", "TransactionID"})
    THEN {KeyError}
    ELSE {[raised |-> FALSE, rows |-> head(p, n)] :
             p \in UNION {DescendingOrders(
                              {CustomerRow(algorithm, txs, k) :
                                  k \in KeysOf(txs, "CustomerID")},
                              "TotalSpent") : algorithm \in SumAlgorithms}}

\* ord(c) for the characters dates are written with.
Ord(c) == IF c \in Digits THEN 48 + DigitVal(c) ELSE IF c = "-" THEN 45 ELSE 127

\* a < b for strings.
RECURSIVE LexLess(_, _)
LexLess(a, b) ==
    IF b = <<>> THEN FALSE
    ELSE IF a = <<>> THEN TRUE
    ELSE IF Ord(Head(a)) # Ord(Head(b)) THEN Ord(Head(a)) < Ord(Head(b))
    ELSE LexLess(Tail(a), Tail(b))

\* The rows (one per date) in ascending order of their date string.
AscendingByDate(rows) ==
    CHOOSE p \in Orders(rows) :
        \A i \in 1..(Len(p) - 1) : LexLess(p[i].Date, p[i + 1].Date)

\* The daily row with the customers counted once per transaction.
DailyRow_PerTransaction(algorithm, txs, date) ==
    LET rows == RowsWith(txs, "Date", date) IN
    [Date            |-> date,
     Revenue         |-> group_sum(algorithm, Amounts(rows)),
     Transactions    |-> Len(rows),
     UniqueCustomers |-> Len(rows)]

\* groupby("Date").agg(Revenue=sum, Transactions=count,
\*                     UniqueCustomers=nunique)
DailyRow(algorithm, txs, date) ==
    LET rows == RowsWith(txs, "Date", date) IN
    [Date            |-> date,
     Revenue         |-> group_sum(algorithm, Amounts(rows)),
     Transactions    |-> Len(rows),
     UniqueCustomers |-> Cardinality(KeysOf(rows, "CustomerID"))]

\* The results daily_sales_stats can return.
daily_sales_stats(txs) ==
    IF KeyErrorOn(txs, {"Quantity", "UnitPrice", "Date", "TransactionID", "CustomerID"})
    THEN {KeyError}
    ELSE {[raised |-> FALSE,
           rows   |-> AscendingByDate({DailyRow(algorithm, txs, d) :
                                          d \in KeysOf(txs, "Date")})] :
             algorithm \in SumAlgorithms}

\* The entry daily_stats[date] after the loop and the set-to-count step.
TrendEntry(txs, date) ==
    LET rows == RowsWith(txs, "Date", date) IN
    [Date              |-> date,
     revenue           |-> py_sum(Amounts(rows)),
     transaction_count |-> Len(rows),
     unique_customers  |-> Cardinality(KeysOf(rows, "CustomerID"))]

\* The sorted dict, as the sequence of its items.
daily_sales_trend(txs) ==
    [raised |-> FALSE,
     items  |-> AscendingByDate({TrendEntry(txs, d) : d \in KeysOf(txs, "Date")})]

\* max() returning the last of the items of the largest revenue.
find_peak_sales_day_LastMax(txs) ==
    LET items == daily_sales_trend(txs).items IN
    IF items = <<>> THEN ValueError
    ELSE LET i == CHOOSE k \in 1..Len(items) :
                      /\ \A j \in 1..Len(items) : items[j].revenue <= items[k].revenue
                      /\ \A j \in (k + 1)..Len(items) : items[j].revenue < items[k].revenue
         IN  [raised |-> FALSE, date |-> items[i].Date, revenue |-> items[i].revenue,
              transaction_count |-> items[i].transaction_count]

\* max(items, key=revenue): the first item of the largest revenue; ValueError
\* when there is no item.
find_peak_sales_day(txs) ==
    LET items == daily_sales_trend(txs).items IN
    IF items = <<>> THEN ValueError
    ELSE LET i == CHOOSE k \in 1..Len(items) :
                      /\ \A j \in 1..Len(items) : items[j].revenue <= items[k].revenue
                      /\ \A j \in 1..(k - 1) : items[j].revenue < items[k].revenue
         IN  [raised |-> FALSE, date |-> items[i].Date, revenue |-> items[i].revenue,
              transaction_count |-> items[i].transaction_count]

\* product_stats[pname] after the loop.
LowRow(txs, name) ==
    LET rows == RowsWith(txs, "ProductName", name) IN
    [ProductName |-> name,
     quantity    |-> FoldSumInt([i \in 1..Len(rows) |-> rows[i].Quantity]),
     revenue     |-> py_sum(Amounts(rows))]

\* list.sort(key=quantity) is stable: a row goes behind every row whose
\* quantity is not larger.
RECURSIVE InsertByQuantity(_, _)
InsertByQuantity(sorted, row) ==
    IF sorted = <<>> THEN <<row>>
    ELSE IF row.quantity < Head(sorted).quantity THEN <<row>> \o sorted
    ELSE <<Head(sorted)>> \o InsertByQuantity(Tail(sorted), row)

RECURSIVE SortByQuantity(_, _)
SortByQuantity(rows, sorted) ==
    IF rows = <<>> THEN sorted
    ELSE SortByQuantity(Tail(rows), InsertByQuantity(sorted, Head(rows)))

\* The filter of line 291 keeping a product whose quantity equals the threshold.
low_performing_products_Inclusive(txs, threshold) ==
    LET names == FirstSeen(txs, "ProductName", <<>>)
        stats == [i \in 1..Len(names) |-> LowRow(txs, names[i])]
        low   == SelectSeq(stats, LAMBDA row : row.quantity <= threshold)
    IN  [raised |-> FALSE, rows |-> SortByQuantity(low, <<>>)]

low_performing_products(txs, threshold) ==
    LET names == FirstSeen(txs, "ProductName", <<>>)
        stats == [i \in 1..Len(names) |-> LowRow(txs, names[i])]
        low   == SelectSeq(stats, LAMBDA row : row.quantity < threshold)
    IN  [raised |-> FALSE, rows |-> SortByQuantity(low, <<>>)]

(***************************************************************************)
(* The aggregators are driven with lists of valid parsed records: three    *)
(* dates (whose string order "10" < "11" < "9" is not their numeric        *)
(* order), four products, three customers, three regions; amounts 0.1,     *)
(* 0.5, 1.0, 1.6, 2.0 and 3.0, among them a product of quantity 10.        *)
(***************************************************************************)
Tx(tid, date, pid, name, qty, price, cid, region) ==
    [TransactionID |-> tid, Date |-> date, ProductID |-> pid, ProductName |-> name,
     Quantity |-> qty, UnitPrice |-> price, CustomerID |-> cid, Region |-> region]

AggPool ==
    { Tx(<<"T", "1">>, <<"1", "0">>, <<"P", "1">>, <<"L">>, 2, 10, <<"C", "1">>, <<"N">>),
      Tx(<<"T", "2">>, <<"9">>, <<"P", "2">>, <<"M">>, 1, 5, <<"C", "2">>, <<"S">>),
      Tx(<<"T", "3">>, <<"9">>, <<"P", "1">>, <<"L">>, 3, 10, <<"C", "2">>, <<"N">>),
      Tx(<<"T", "4">>, <<"1", "0">>, <<"P", "2">>, <<"M">>, 4, 5, <<"C", "1">>, <<"S">>),
      Tx(<<"T", "5">>, <<"1", "1">>, <<"P", "3">>, <<"K">>, 1, 1, <<"C", "1">>, <<"E">>),
      Tx(<<"T", "6">>, <<"1", "0">>, <<"P", "3">>, <<"K">>, 1, 16, <<"C", "3">>, <<"N">>),
      Tx(<<"T", "7">>, <<"9">>, <<"P", "4">>, <<"J">>, 10, 1, <<"C", "3">>, <<"S">>),
      Tx(<<"T", "8">>, <<"9">>, <<"P", "1">>, <<"L">>, 2, 10, <<"C", "2">>, <<"E">>) }

MaxTxAgg == 3     \* longest list given to an aggregator

DefaultTopN == 5
DefaultThreshold == 10

TopNArgs == {0, 1, 2, DefaultTopN}
ThresholdArgs == {2, DefaultThreshold}

InitAggregate ==
    /\ pc = "start"
    /\ raw_lines = <<>>
    /\ transactions \in SeqUpTo(AggPool, MaxTxAgg)
    /\ args = NoArgs
    /\ result = NoResult
    /\ files = NoFiles
    /\ locals = NoLocals

\* A call without further arguments that has one outcome.
Call(name, outcome) ==
    /\ pc = "start"
    /\ pc' = name
    /\ result' = outcome
    /\ UNCHANGED <<raw_lines, transactions, args, files, locals>>

CalculateTotalRevenue ==
    Call("calculate_total_revenue", calculate_total_revenue(transactions))

AverageOrderValue ==
    Call("average_order_value", average_order_value(transactions))

RegionPerformance ==
    \E outcome \in region_performance(transactions) :
        Call("region_performance", outcome)

TopProducts ==
    \E n \in TopNArgs : \E outcome \in top_products(transactions, n) :
        /\ pc = "start"
        /\ pc' = "top_products"
        /\ args' = [n |-> n]
        /\ result' = outcome
        /\ UNCHANGED <<raw_lines, transactions, files, locals>>

TopCustomers ==
    \E n \in TopNArgs : \E outcome \in top_customers(transactions, n) :
        /\ pc = "start"
        /\ pc' = "top_customers"
        /\ args' = [n |-> n]
        /\ result' = outcome
        /\ UNCHANGED <<raw_lines, transactions, files, locals>>

DailySalesStats ==
    \E outcome \in daily_sales_stats(transactions) :
        Call("daily_sales_stats", outcome)

DailySalesTrend == Call("daily_sales_trend", daily_sales_trend(transactions))

FindPeakSalesDay == Call("find_peak_sales_day", find_peak_sales_day(transactions))

LowPerformingProducts ==
    \E threshold \in ThresholdArgs :
        /\ pc = "start"
        /\ pc' = "low_performing_products"
        /\ args' = [threshold |-> threshold]
        /\ result' = low_performing_products(transactions, threshold)
        /\ UNCHANGED <<raw_lines, transactions, files, locals>>

NextAggregate ==
    \/ CalculateTotalRevenue
    \/ AverageOrderValue
    \/ RegionPerformance
    \/ TopProducts
    \/ TopCustomers
    \/ DailySalesStats
    \/ DailySalesTrend
    \/ FindPeakSalesDay
    \/ LowPerformingProducts

SpecAggregate == InitAggregate /\ [][NextAggregate]_vars

AggregatorCalls ==
    {"calculate_total_revenue", "average_order_value", "region_performance",
     "top_products", "top_customers", "daily_sales_stats", "daily_sales_trend",
     "find_peak_sales_day", "low_performing_products"}

(***************************************************************************)
(* C6.  Every aggregator function called on an empty transaction set       *)
(* returns an empty or zeroed result and never raises an exception.        *)
(***************************************************************************)
C6_EmptyNeverRaises ==
    (pc \in AggregatorCalls /\ transactions = <<>>) =>
        /\ ~result.raised
        /\ pc = "calculate_total_revenue" => result.value = 0
        /\ pc = "average_order_value" => result.value.num = 0
        /\ "rows" \in DOMAIN result => result.rows = <<>>
        /\ "items" \in DOMAIN result => result.items = <<>>

\* The exact product and the exact sum of products, without rounding.
ExactAmount(tx) == tx.Quantity * tx.UnitPrice

RECURSIVE ExactSumOver(_, _)
ExactSumOver(txs, I) ==
    IF I = {} THEN 0
    ELSE LET i == CHOOSE k \in I : TRUE IN
         ExactAmount(txs[i]) + ExactSumOver(txs, I \ {i})

\* Every sum of amounts of the list is a float: no addition rounds.
ExactlySummable(txs) ==
    \A I \in SUBSET (1..Len(txs)) : fl(ExactSumOver(txs, I)) = ExactSumOver(txs, I)

(***************************************************************************)
(* C7.  calculate_total_revenue returns the sum of Quantity*UnitPrice over *)
(* the set (the float sum in input order, which is the exact sum whenever  *)
(* no addition rounds) and 0 for an empty set; average_order_value returns *)
(* that total divided by the number of transactions, and 0 for an empty    *)
(* set without a division error.                                           *)
(***************************************************************************)
RECURSIVE C7_SumOfFirst(_)
C7_SumOfFirst(k) ==
    IF k = 0 THEN 0
    ELSE fl(C7_SumOfFirst(k - 1)
            + fl(transactions[k].Quantity * transactions[k].UnitPrice))

C7_TotalAndAverage ==
    /\ pc = "calculate_total_revenue" =>
          /\ ~result.raised
          /\ result.value = C7_SumOfFirst(Len(transactions))
          /\ ExactlySummable(transactions) =>
                 result.value = ExactSumOver(transactions, 1..Len(transactions))
          /\ transactions = <<>> => result.value = 0
    /\ pc = "average_order_value" =>
          /\ ~result.raised
          /\ transactions = <<>> => result.value.num = 0
          /\ transactions # <<>> =>
                 result.value.num * Len(transactions)
                     = C7_SumOfFirst(Len(transactions)) * result.value.den

\* The average of three amounts 0.5, 0.1 and 0.5: 1.1 / 3.
C7_Witness ==
    /\ pc = "average_order_value"
    /\ Len(transactions) = 3
    /\ ExactlySummable(transactions)
    /\ result.value = [num |-> 11, den |-> 3]

(***************************************************************************)
(* C8.  For every non-empty valid transaction set, region_performance      *)
(* returns exactly one row per distinct Region and every transaction is    *)
(* counted in exactly one row (the Transactions column sums to the number  *)
(* of input transactions).  As amended: the Sales column summed over all   *)
(* rows equals calculate_total_revenue of the same set whenever every sum  *)
(* of amounts is exactly representable as a float; otherwise the two may   *)
(* differ by floating-point rounding.                                      *)
(***************************************************************************)
C8_Column(rows, col) == [i \in 1..Len(rows) |-> rows[i][col]]

C8_OneRowPerRegion ==
    /\ ~result.raised
    /\ {result.rows[i].Region : i \in 1..Len(result.rows)}
           = {transactions[i].Region : i \in 1..Len(transactions)}
    /\ \A i, j \in 1..Len(result.rows) :
           result.rows[i].Region = result.rows[j].Region => i = j
    /\ \A i \in 1..Len(result.rows) :
           result.rows[i].Transactions =
               Cardinality({k \in 1..Len(transactions) :
                               transactions[k].Region = result.rows[i].Region})
    /\ FoldSumInt(C8_Column(result.rows, "Transactions")) = Len(transactions)

C8_SalesSumIsTotal ==
    py_sum(C8_Column(result.rows, "Sales")) = calculate_total_revenue(transactions).value

C8_Case == pc = "region_performance" /\ transactions # <<>>

\* The claim as stated: the sums are equal for every set.
C8_Original == C8_Case => (C8_OneRowPerRegion /\ C8_SalesSumIsTotal)

\* The claim as amended.
C8_RegionPartition ==
    C8_Case =>
        /\ C8_OneRowPerRegion
        /\ ExactlySummable(transactions) => C8_SalesSumIsTotal

\* Three transactions in two regions, no sum of which rounds.
C8_Witness ==
    /\ C8_Case
    /\ Len(transactions) = 3
    /\ ExactlySummable(transactions)
    /\ Len(result.rows) = 2
    /\ result.rows[1].Transactions = 2
    /\ result.rows[1].Sales + result.rows[2].Sales
           = calculate_total_revenue(transactions).value

(***************************************************************************)
(* utils/api_handler.py: enrich_sales_data and save_enriched_data.         *)
(*                                                                         *)
(* A product mapping is a function from integer ids to product dicts.  A   *)
(* value that may be Python's None is None or Some(v).                     *)
(***************************************************************************)
APIFields == {"API_Category", "API_Brand", "API_Rating", "API_Match"}

\* product_info.get(key)
info_get(product_info, key) ==
    IF key \in DOMAIN product_info THEN Some(product_info[key]) ELSE None

\* Lines 108-113: the integer after the leading "P", or None.
numeric_id_of(tx) ==
    LET raw_pid == get(tx, "ProductID", <<>>) IN
    IF startswith(raw_pid, "P") /\ IntParses(Tail(raw_pid))
    THEN Some(IntValue(Tail(raw_pid)))
    ELSE None

\* Line 116: `numeric_id and numeric_id in product_mapping`; None and 0 are
\* both falsy.
Lookup(numeric_id, product_mapping) ==
    /\ numeric_id.some
    /\ numeric_id.val # 0
    /\ numeric_id.val \in DOMAIN product_mapping

\* Lines 116-127: the transaction dict after its four API_ keys are assigned.
EnrichOne(tx, product_mapping) ==
    LET numeric_id == numeric_id_of(tx) IN
    IF Lookup(numeric_id, product_mapping)
    THEN LET product_info == product_mapping[numeric_id.val] IN
         [k \in DOMAIN tx \cup APIFields |->
             CASE k = "API_Category" -> info_get(product_info, "category")
               [] k = "API_Brand"    -> info_get(product_info, "brand")
               [] k = "API_Rating"   -> info_get(product_info, "rating")
               [] k = "API_Match"    -> TRUE
               [] OTHER              -> tx[k]]
    ELSE [k \in DOMAIN tx \cup APIFields |->
             CASE k = "API_Match"            -> FALSE
               [] k \in APIFields \ {"API_Match"} -> None
               [] OTHER                      -> tx[k]]

\* The loop that keeps only the matched transactions.
enrich_loop_MatchedOnly(txs, product_mapping) ==
    SelectSeq([i \in 1..Len(txs) |-> EnrichOne(txs[i], product_mapping)],
              LAMBDA tx : tx.API_Match)

\* Lines 102-136: every transaction is appended once, in input order.
enrich_loop(txs, product_mapping) ==
    [i \in 1..Len(txs) |-> EnrichOne(txs[i], product_mapping)]

\* str(int)
DigitChars == <<"0", "1", "2", "3", "4", "5", "6", "7", "8", "9">>

RECURSIVE IntStr(_)
IntStr(n) ==
    IF n < 0 THEN <<"-">> \o IntStr(-n)
    ELSE IF n < 10 THEN <<DigitChars[n + 1]>>
    ELSE IntStr(n \div 10) \o <<DigitChars[(n % 10) + 1]>>

\* str(float) of a value held in tenths: "12.0", "0.5".
FloatStr(x) ==
    IF x < 0 THEN <<"-">> \o IntStr((-x) \div 10) \o <<".">> \o IntStr((-x) % 10)
    ELSE IntStr(x \div 10) \o <<".">> \o IntStr(x % 10)

\* str(bool)
BoolStr(b) == IF b THEN <<"True">> ELSE <<"False">>

\* Lines 156-160.  A column name is written as one symbol.
header ==
    << <<"TransactionID">>, <<"Date">>, <<"ProductID">>, <<"ProductName">>,
       <<"Quantity">>, <<"UnitPrice">>, <<"CustomerID">>, <<"Region">>,
       <<"API_Category">>, <<"API_Brand">>, <<"API_Rating">>, <<"API_Match">> >>

\* Lines 170-173: tx.get(col), None written as "", anything else as str(val).
Cell(tx, col) ==
    IF col \notin DOMAIN tx THEN <<>>
    ELSE CASE col = "Quantity"  -> IntStr(tx[col])
           [] col = "UnitPrice" -> FloatStr(tx[col])
           [] col = "API_Match" -> BoolStr(tx[col])
           [] col = "API_Rating" ->
                  IF tx[col].some THEN FloatStr(tx[col].val) ELSE <<>>
           [] col \in {"API_Category", "API_Brand"} ->
                  IF tx[col].some THEN tx[col].val ELSE <<>>
           [] OTHER -> tx[col]

\* Lines 168-174: one line of the file for one transaction.
Row(tx) == join([c \in 1..Len(header) |-> Cell(tx, header[c][1])], "|")

EnrichedFile == "data/enriched_sales_data.txt"

\* Lines 143-176: the lines of the file, the header first.
save_enriched_data(enriched_transactions) ==
    <<join(header, "|")>>
        \o [i \in 1..Len(enriched_transactions) |-> Row(enriched_transactions[i])]

\* Lines 91-141.  The dicts of the caller's list are the ones that are changed
\* and returned.
enrich_sales_data(txs, product_mapping) ==
    [raised |-> FALSE, value |-> enrich_loop(txs, product_mapping)]

\* Product dicts as create_product_mapping builds them; ratings in tenths.
Product(title, category, brand, rating) ==
    [title |-> title, category |-> category, brand |-> brand, rating |-> rating]

ProductA == Product(<<"a">>, <<"g">>, <<"b">>, 40)
ProductB == Product(<<"c">>, <<"h">>, <<"d">>, 30)
\* A product dict without a brand.
ProductC == [title |-> <<"e">>, category |-> <<"g">>, rating |-> 20]

EmptyMapping == [id \in {} |-> ProductA]

MappingPool ==
    { EmptyMapping,
      [id \in {1} |-> ProductA],
      [id \in {0, 1} |-> IF id = 0 THEN ProductB ELSE ProductA],
      [id \in {1, 2} |-> IF id = 1 THEN ProductA ELSE ProductC] }

WithProductID(pid) == [BaseTx EXCEPT !.ProductID = pid]

EnrichPool ==
    { WithProductID(<<"P", "1">>), WithProductID(<<"P", "0">>),
      WithProductID(<<"P", "2">>), WithProductID(<<"P", "0", "1">>),
      WithProductID(<<"P">>), WithProductID(<<"P", "x">>),
      WithProductID(<<"Q", "1">>), Without(BaseTx, "ProductID") }

MaxTxEnrich == 2

InitEnrich ==
    /\ pc = "start"
    /\ raw_lines = <<>>
    /\ transactions \in SeqUpTo(EnrichPool, MaxTxEnrich)
    /\ args \in {[product_mapping |-> m] : m \in MappingPool}
    /\ result = NoResult
    /\ files = NoFiles
    /\ locals = NoLocals

EnrichSalesData ==
    /\ pc = "start"
    /\ pc' = "enrich_sales_data"
    /\ result' = enrich_sales_data(transactions, args.product_mapping)
    /\ transactions' = result'.value
    /\ files' = [path \in DOMAIN files \cup {EnrichedFile} |->
                    IF path = EnrichedFile
                    THEN save_enriched_data(result'.value)
                    ELSE files[path]]
    /\ UNCHANGED <<raw_lines, args, locals>>

NextEnrich == EnrichSalesData

SpecEnrich == InitEnrich /\ [][NextEnrich]_vars

(***************************************************************************)
(* C9.  enrich_sales_data returns exactly as many records as it was given, *)
(* in the same order: the i-th record of the result is the i-th input      *)
(* transaction with the four API_ keys added, whatever the product mapping *)
(* and whether or not a numeric id could be extracted; with the empty      *)
(* mapping every record has API_Match = false.                             *)
(***************************************************************************)
C9_Base(tx) == [k \in (DOMAIN tx) \ APIFields |-> tx[k]]

C9_SameRecords(before, after) ==
    /\ Len(after) = Len(before)
    /\ \A i \in 1..Len(before) :
           /\ C9_Base(after[i]) = before[i]
           /\ APIFields \subseteq DOMAIN after[i]

C9_CardinalityPreserved ==
    [][(pc = "start" /\ pc' = "enrich_sales_data") =>
          /\ ~result'.raised
          /\ C9_SameRecords(transactions, result'.value)
          /\ (DOMAIN args.product_mapping = {} =>
                 \A i \in 1..Len(result'.value) : ~result'.value[i].API_Match)]_vars

\* Two records returned for two given: the first has no numeric id, the second
\* is matched.
C9_Witness ==
    /\ pc = "enrich_sales_data"
    /\ Len(result.value) = 2
    /\ ~numeric_id_of(result.value[1]).some
    /\ ~result.value[1].API_Match
    /\ result.value[2].API_Match

(***************************************************************************)
(* C10.  A record of the result has API_Match = true and the mapping's     *)
(* category, brand and rating if and only if its ProductID starts with "P",*)
(* the remainder parses as an integer and that integer is a key of the     *)
(* mapping, 0 included; every other record has API_Match = false and the   *)
(* three fields null.                                                      *)
(***************************************************************************)
C10_ShouldMatch(tx, product_mapping) ==
    /\ numeric_id_of(tx).some
    /\ numeric_id_of(tx).val \in DOMAIN product_mapping

C10_Copied(tx, product_info) ==
    /\ tx.API_Match
    /\ tx.API_Category = info_get(product_info, "category")
    /\ tx.API_Brand = info_get(product_info, "brand")
    /\ tx.API_Rating = info_get(product_info, "rating")

C10_Unmatched(tx) ==
    /\ ~tx.API_Match
    /\ tx.API_Category = None
    /\ tx.API_Brand = None
    /\ tx.API_Rating = None

C10_MatchIff ==
    pc = "enrich_sales_data" =>
        \A i \in 1..Len(result.value) :
            LET tx == result.value[i] IN
            IF C10_ShouldMatch(tx, args.product_mapping)
            THEN C10_Copied(tx, args.product_mapping[numeric_id_of(tx).val])
            ELSE C10_Unmatched(tx)

(***************************************************************************)
(* utils/logger.py: log_run.                                               *)
(*                                                                         *)
(* A file is the sequence of its lines; opening with "x" creates the file  *)
(* unless it exists, opening with "a" appends.  The clock is read by the   *)
(* caller of the model: the timestamp is an input of the call.             *)
(***************************************************************************)
LogFile == "output/run_log.csv"

\* Line 23.  A column name is written as one symbol.
log_header ==
    join(<< <<"timestamp">>, <<"region">>, <<"min_amount">>, <<"max_amount">>,
            <<"valid_count">>, <<"invalid_count">>, <<"error">> >>, ",")

\* Line 17: `error if error else ""`; None and "" are both falsy.
ErrorText(error) == IF error.some /\ error.val # <<>> THEN error.val ELSE <<>>

\* Lines 10-18 and 29: ",".join(map(str, row)).
log_row(timestamp, filters, valid_count, invalid_count, error) ==
    join(<< timestamp,
            get(filters, "region", <<>>),
            get(filters, "min_amount", <<>>),
            get(filters, "max_amount", <<>>),
            IntStr(valid_count),
            IntStr(invalid_count),
            ErrorText(error) >>, ",")

\* log_run opening the log with "w" in place of "x" and "a".
log_run_Truncate(fs, timestamp, filters, valid_count, invalid_count, error) ==
    [path \in DOMAIN fs \cup {LogFile} |->
        IF path = LogFile
        THEN <<log_header,
               log_row(timestamp, filters, valid_count, invalid_count, error)>>
        ELSE fs[path]]

\* Lines 3-29: the files after the call.
log_run(fs, timestamp, filters, valid_count, invalid_count, error) ==
    LET before == IF LogFile \in DOMAIN fs THEN fs[LogFile] ELSE <<log_header>>
    IN  [path \in DOMAIN fs \cup {LogFile} |->
            IF path = LogFile
            THEN Append(before,
                        log_row(timestamp, filters, valid_count, invalid_count, error))
            ELSE fs[path]]

\* The rows of the audit log among the files fs.
LogRows(fs) == IF LogFile \in DOMAIN fs THEN Tail(fs[LogFile]) ELSE <<>>

NoFilters == [region |-> <<>>, min_amount |-> <<>>, max_amount |-> <<>>]

FiltersPool ==
    { NoFilters,
      [region |-> <<"N">>, min_amount |-> <<"5">>, max_amount |-> <<>>],
      [key \in {} |-> <<>>] }

Timestamps == { <<"t1">>, <<"t2">> }
CountsPool == { <<0, 0>>, <<12, 3>> }
ErrorPool == { None, Some(<<>>), Some(<<"E", " ", "1">>) }

MaxLogCalls == 2

\* args holds the calls made so far, in order.
InitLog ==
    /\ pc = "start"
    /\ raw_lines = <<>>
    /\ transactions = <<>>
    /\ args = <<>>
    /\ result = NoResult
    /\ files = NoFiles
    /\ locals = NoLocals

LogRun ==
    /\ Len(args) < MaxLogCalls
    /\ \E timestamp \in Timestamps, filters \in FiltersPool,
          counts \in CountsPool, error \in ErrorPool :
          /\ files' = log_run(files, timestamp, filters, counts[1], counts[2], error)
          /\ args' = Append(args, [timestamp |-> timestamp, filters |-> filters,
                                   valid_count |-> counts[1],
                                   invalid_count |-> counts[2], error |-> error])
    /\ pc' = "log_run"
    /\ UNCHANGED <<raw_lines, transactions, result, locals>>

NextLog == LogRun

SpecLog == InitLog /\ [][NextLog]_vars

(***************************************************************************)
(* C12.  Starting from an absent audit log, after k >= 1 calls of log_run  *)
(* the file is the header line once, as its first line, followed by k rows *)
(* in call order, the error column of a row being empty when no error was  *)
(* passed; and a call leaves every line written earlier where it was.      *)
(***************************************************************************)
C12_Columns(i) == split(files[LogFile][i + 1], ",")

C12_Shape ==
    Len(args) >= 1 =>
        /\ LogFile \in DOMAIN files
        /\ Len(files[LogFile]) = Len(args) + 1
        /\ files[LogFile][1] = log_header
        /\ \A i \in 2..Len(files[LogFile]) : files[LogFile][i] # log_header
        /\ \A i \in 1..Len(args) :
               /\ Len(C12_Columns(i)) = 7
               /\ C12_Columns(i)[1] = args[i].timestamp
               /\ C12_Columns(i)[2] = get(args[i].filters, "region", <<>>)
               /\ C12_Columns(i)[5] = IntStr(args[i].valid_count)
               /\ C12_Columns(i)[6] = IntStr(args[i].invalid_count)
               /\ (~args[i].error.some => C12_Columns(i)[7] = <<>>)
               /\ (args[i].error.some => C12_Columns(i)[7] = args[i].error.val)

C12_EarlierLinesKept ==
    LogFile \in DOMAIN files =>
        /\ LogFile \in DOMAIN files'
        /\ Len(files'[LogFile]) >= Len(files[LogFile])
        /\ SubSeq(files'[LogFile], 1, Len(files[LogFile])) = files[LogFile]

C12_AppendOnly == []C12_Shape /\ [][C12_EarlierLinesKept]_vars

\* Two calls, the first without an error and the second with one.
C12_Witness ==
    /\ Len(args) = 2
    /\ Len(files[LogFile]) = 3
    /\ ~args[1].error.some
    /\ args[2].error.some /\ args[2].error.val # <<>>
    /\ C12_Columns(1)[7] = <<>>
    /\ C12_Columns(2)[7] = args[2].error.val

(***************************************************************************)
(* main.py and the functions only main calls.                              *)
(*                                                                         *)
(* locals holds main's local variables that are bound so far, args what    *)
(* the process is given from outside (the user's typed answers and the     *)
(* part of them not yet read, the response of the catalog) and result one  *)
(* record per finished run: its exit status, the analysis it computed and  *)
(* the rows of the audit log when it ended.  The clock is read at the      *)
(* granularity of a run.                                                   *)
(***************************************************************************)
SalesFile == "data/sales_data.txt"
ReportFile == "output/sales_report.txt"

\* str.lower()
UpperCase ==
    <<"A", "B", "C", "D", "E", "F", "G", "H", "I", "J", "K", "L", "M",
      "N", "O", "P", "Q", "R", "S", "T", "U", "V", "W", "X", "Y", "Z">>
LowerCase ==
    <<"a", "b", "c", "d", "e", "f", "g", "h", "i", "j", "k", "l", "m",
      "n", "o", "p", "q", "r", "s", "t", "u", "v", "w", "x", "y", "z">>

LowerChar(c) ==
    IF \E i \in 1..26 : UpperCase[i] = c
    THEN LowerCase[CHOOSE i \in 1..26 : UpperCase[i] = c]
    ELSE c

lower(s) == [i \in 1..Len(s) |-> LowerChar(s[i])]

\* file_handler.py:14: the lines after the first, stripped, the blank ones
\* left out.
read_sales_data(lines) ==
    LET stripped == [i \in 1..Len(lines) |-> strip(lines[i])]
    IN  SelectSeq(IF stripped = <<>> THEN <<>> ELSE Tail(stripped),
                  LAMBDA line : line # <<>>)

\* main.py:119-123
FilterRegion(txs, region_choice) ==
    IF region_choice = <<>> THEN txs
    ELSE SelectSeq(txs, LAMBDA tx :
             lower(get(tx, "Region", <<>>)) = lower(region_choice))

\* main.py:125-133: an amount that float() rejects is ignored.
FilterMin(txs, min_amt) ==
    IF min_amt = <<>> \/ ~FloatParses(min_amt) THEN txs
    ELSE SelectSeq(txs, LAMBDA tx : get(tx, "UnitPrice", 0) >= FloatValue(min_amt))

\* main.py:135-143
FilterMax(txs, max_amt) ==
    IF max_amt = <<>> \/ ~FloatParses(max_amt) THEN txs
    ELSE SelectSeq(txs, LAMBDA tx : get(tx, "UnitPrice", 0) <= FloatValue(max_amt))

\* main.py:117-145
ApplyFilters(txs, filters) ==
    FilterMax(FilterMin(FilterRegion(txs, filters.region), filters.min_amount),
              filters.max_amount)

\* A product of the catalog as the API sends it.
ApiProduct(id, title, category, brand, rating) ==
    [id |-> id, title |-> title, category |-> category, brand |-> brand,
     price |-> 10, rating |-> rating]

ProductKeys == {"id", "title", "category", "brand", "price", "rating"}

\* fetch_all_products without raise_for_status: the body is used whatever
\* the status.
fetch_all_products_AnyStatus(response) ==
    IF \E i \in 1..Len(response.products) :
           ~(ProductKeys \subseteq DOMAIN response.products[i]) THEN <<>>
    ELSE [i \in 1..Len(response.products) |->
             [k \in ProductKeys |-> response.products[i][k]]]

\* api_handler.py:42-67.  A response is the outcome of the request: ok is false
\* for a timeout, a transport error, a non-2xx status or a body that is not
\* JSON.  A product without one of the six keys raises KeyError inside the
\* try, which returns [] as every other failure does.
fetch_all_products(response) ==
    IF ~response.ok THEN <<>>
    ELSE IF \E i \in 1..Len(response.products) :
                ~(ProductKeys \subseteq DOMAIN response.products[i]) THEN <<>>
    ELSE [i \in 1..Len(response.products) |->
             [k \in ProductKeys |-> response.products[i][k]]]

\* api_handler.py:79-89: a later product with the same id replaces an earlier.
create_product_mapping(api_products) ==
    [id \in {api_products[i].id : i \in 1..Len(api_products)} |->
        LET last == CHOOSE i \in 1..Len(api_products) :
                        /\ api_products[i].id = id
                        /\ \A j \in (i + 1)..Len(api_products) : api_products[j].id # id
        IN  [title |-> api_products[last].title,
             category |-> api_products[last].category,
             brand |-> api_products[last].brand,
             rating |-> api_products[last].rating]]

\* repr() of the value of a column, by the type the column has.
Repr(tx, col) ==
    CASE col = "Quantity"  -> IntStr(tx[col])
      [] col = "UnitPrice" -> FloatStr(tx[col])
      [] col = "API_Match" -> BoolStr(tx[col])
      [] col = "API_Rating" ->
             IF tx[col].some THEN FloatStr(tx[col].val) ELSE <<"None">>
      [] col \in {"API_Category", "API_Brand"} ->
             IF tx[col].some THEN <<"'">> \o tx[col].val \o <<"'">> ELSE <<"None">>
      [] OTHER -> <<"'">> \o tx[col] \o <<"'">>

\* str(tx) of a transaction dict: "{'TransactionID': 'T1', ..., 'API_Match':
\* False}".  The keys come in insertion order: the parser's eight, then the
\* enricher's four, which is the order of header.
DictStr(tx) ==
    LET cols  == SelectSeq(header, LAMBDA col : col[1] \in DOMAIN tx)
        items == [c \in 1..Len(cols) |->
                     <<"'">> \o cols[c] \o <<"'", ":", " ">> \o Repr(tx, cols[c][1])]
    IN  <<"{">> \o join(items, ", ") \o <<"}">>

\* main.py:253-257: the file opened with "w" and one str(tx) line written per
\* enriched transaction.
WriteEnrichedAsDicts(fs, enriched) ==
    [path \in DOMAIN fs \cup {EnrichedFile} |->
        IF path = EnrichedFile
        THEN [i \in 1..Len(enriched) |-> DictStr(enriched[i])]
        ELSE fs[path]]

\* data_processor.py:331-483.  The report as its heading lines and the counts
\* written beside them; the rows of its tables are left out.  It is called
\* with a non-empty list of parsed, enriched transactions only.
generate_sales_report(fs, txs, enriched_transactions, generation_time) ==
    LET matched == Len(SelectSeq(enriched_transactions, LAMBDA tx : tx.API_Match))
        report ==
            << <<"SALES ANALYTICS REPORT">>,
               <<"Generated: ">> \o generation_time,
               <<"Records Processed: ">> \o IntStr(Len(txs)),
               <<"OVERALL SUMMARY">>,
               <<"Total Transactions: ">> \o IntStr(Len(txs)),
               <<"REGION-WISE PERFORMANCE">>,
               <<"TOP 5 PRODUCTS">>,
               <<"TOP 5 CUSTOMERS">>,
               <<"DAILY SALES TREND">>,
               <<"PRODUCT PERFORMANCE ANALYSIS">>,
               <<"API ENRICHMENT SUMMARY">>,
               <<"Total Products Enriched: ">> \o IntStr(matched) \o <<"/">>
                   \o IntStr(Len(enriched_transactions)) >>
    IN  [path \in DOMAIN fs \cup {ReportFile} |->
            IF path = ReportFile THEN report ELSE fs[path]]

\* A pandas aggregation is a function of its input: which of the outcomes
\* permitted (the order among equal keys, the rounding of the sums) it returns
\* is fixed, and not specified.
Sorted(outcomes) == CHOOSE outcome \in outcomes : TRUE

\* main.py:173-182: the analysis of no valid transaction.
EmptyAnalysis ==
    [total_revenue |-> 0, average_order_value |-> [num |-> 0, den |-> 1],
     region_performance |-> <<>>, top_products |-> <<>>, top_customers |-> <<>>,
     daily_sales_stats |-> <<>>, low_performing_products |-> <<>>]

\* main.py:184-230
Analysis(valid) ==
    [total_revenue           |-> calculate_total_revenue(valid).value,
     average_order_value     |-> average_order_value(valid).value,
     region_performance      |-> Sorted(region_performance(valid)).rows,
     top_products            |-> Sorted(top_products(valid, DefaultTopN)).rows,
     top_customers           |-> Sorted(top_customers(valid, DefaultTopN)).rows,
     daily_sales_stats       |-> Sorted(daily_sales_stats(valid)).rows,
     low_performing_products |-> low_performing_products(valid, DefaultThreshold).rows]

\* An aggregator of lines 199-202 raises.
AnalysisRaises(valid) ==
    \/ Sorted(region_performance(valid)).raised
    \/ Sorted(top_products(valid, DefaultTopN)).raised
    \/ Sorted(top_customers(valid, DefaultTopN)).raised
    \/ Sorted(daily_sales_stats(valid)).raised

\* name = value among the locals.
Bind(ls, name, value) ==
    [k \in DOMAIN ls \cup {name} |-> IF k = name THEN value ELSE ls[k]]

\* The first line of the sales file.
SalesHeader == join(SubSeq(header, 1, 8), "|")

\* Lines of the sales file: two valid records, one of quantity 0, one that is
\* not a record and a blank one.
MainLinePool ==
    { join(<< <<"T", "1">>, <<"1", "0">>, <<"P", "1">>, <<"L">>, <<"2">>,
              <<"1", ".", "0">>, <<"C", "1">>, <<"N">> >>, "|"),
      join(<< <<"T", "2">>, <<"9">>, <<"P", "2">>, <<"M">>, <<"1">>,
              <<"0", ".", "5">>, <<"C", "2">>, <<"S">> >>, "|"),
      join(<< <<"T", "3">>, <<"9">>, <<"P", "0">>, <<"K">>, <<"0">>,
              <<"1", ".", "0">>, <<"C", "1">>, <<"N">> >>, "|"),
      <<"x">>,
      <<" ">> }

MaxFileLines == 2

\* What the user types, one answer per prompt, until the input ends.
ScriptPool ==
    { <<>>,
      << <<"n">> >>,
      << <<"q">>, <<" ", "N">> >>,
      << <<"y">>, <<"n">>, <<>>, <<>> >>,
      << <<"y">>, <<>>, <<"0", ".", "8">>, <<"x">> >>,
      << <<"y">>, <<"X">>, <<>>, <<>>, <<"n">> >>,
      << <<"y">>, <<"X">>, <<>>, <<>>, <<"y">>, <<"n">> >>,
      << <<"y">>, <<"X">>, <<>>, <<>>, <<"y">>, <<"y">>, <<"N">>, <<>>, <<>>, <<"y">> >> }

\* Responses of the catalog: a failed request (a timeout, say), a response of
\* status 500 that has a body, a catalog of two products and a catalog with a
\* product that has no brand.
ApiResponses ==
    { [ok |-> FALSE, products |-> <<>>],
      [ok |-> FALSE, products |-> << ApiProduct(1, <<"a">>, <<"g">>, <<"b">>, 40) >>],
      [ok |-> TRUE,
       products |-> << ApiProduct(1, <<"a">>, <<"g">>, <<"b">>, 40),
                       ApiProduct(2, <<"c">>, <<"h">>, <<"d">>, 30) >>],
      [ok |-> TRUE,
       products |-> << ApiProduct(1, <<"a">>, <<"g">>, <<"b">>, 40),
                       [id |-> 2, title |-> <<"c">>, category |-> <<"h">>,
                        price |-> 10, rating |-> 30] >>] }

MaxRuns == 2

\* No request has been answered in this run.
NoResponse == [ok |-> FALSE, products |-> <<>>]

\* datetime.now() formatted: the same within a run, later in a later run.
Now == <<"t">> \o IntStr(Len(result) + 1)

\* main.py:59-66: the process starts; the log and the output files are absent,
\* the sales file may be.
InitMain ==
    /\ pc = "main"
    /\ raw_lines = <<>>
    /\ transactions = <<>>
    /\ args \in {[script |-> script, stdin |-> script, response |-> NoResponse] :
                    script \in ScriptPool}
    /\ result = <<>>
    /\ files \in {NoFiles}
           \cup {[path \in {SalesFile} |-> <<SalesHeader>> \o lines] :
                    lines \in SeqUpTo(MainLinePool, MaxFileLines)}
    /\ locals = [filters |-> NoFilters]

\* The process ends with an exit status, leaving its files.
Exit(status, ls, fs) ==
    /\ pc' = "exit"
    /\ locals' = ls
    /\ files' = fs
    /\ result' = Append(result,
                        [status   |-> status,
                         analysis |-> IF "analysis" \in DOMAIN ls
                                      THEN Some(ls.analysis) ELSE None,
                         log      |-> LogRows(fs)])

\* An exception reaches the handler of line 326.
Raise(ls, message) ==
    /\ pc' = "except"
    /\ locals' = Bind(ls, "e", message)

\* main.py:71-77.
ReadAndParse ==
    /\ pc = "main"
    /\ IF SalesFile \notin DOMAIN files
       THEN Raise(locals, <<"File not found: data/sales_data.txt">>)
       ELSE LET raw_data == read_sales_data(files[SalesFile]) IN
            /\ pc' = "filter"
            /\ locals' = Bind(Bind(locals, "raw_data", raw_data),
                              "parsed", parse_transactions(raw_data))
    /\ UNCHANGED <<raw_lines, transactions, args, result, files>>

\* safe_input (main.py:28-34) at the end of the input: sys.exit(0), which the
\* handler of line 326 does not catch.
FilterEndOfInput ==
    /\ pc = "filter"
    /\ LET in     == args.stdin
           choice == IF in = <<>> THEN <<>> ELSE lower(strip(in[1]))
       IN  /\ \/ in = <<>>
              \/ choice = <<"y">> /\ Len(in) < 4
              \/ /\ choice = <<"y">> /\ Len(in) = 4
                 /\ ApplyFilters(locals.parsed,
                                 [region |-> strip(in[2]), min_amount |-> strip(in[3]),
                                  max_amount |-> strip(in[4])]) = <<>>
           /\ Exit(0,
                   IF choice = <<"y">> /\ Len(in) = 4
                   THEN Bind(Bind(locals, "filters",
                                  [region |-> strip(in[2]), min_amount |-> strip(in[3]),
                                   max_amount |-> strip(in[4])]),
                             "parsed", <<>>)
                   ELSE locals,
                   files)
           /\ args' = [args EXCEPT !.stdin = <<>>]
    /\ UNCHANGED <<raw_lines, transactions>>

\* main.py:101-104: an answer other than y or n is asked again.
FilterAskAgain ==
    /\ pc = "filter"
    /\ args.stdin # <<>>
    /\ lower(strip(args.stdin[1])) \notin {<<"y">>, <<"n">>}
    /\ args' = [args EXCEPT !.stdin = Tail(@)]
    /\ UNCHANGED <<pc, raw_lines, transactions, result, files, locals>>

\* main.py:159-161
FilterNone ==
    /\ pc = "filter"
    /\ args.stdin # <<>>
    /\ lower(strip(args.stdin[1])) = <<"n">>
    /\ pc' = "validate"
    /\ args' = [args EXCEPT !.stdin = Tail(@)]
    /\ UNCHANGED <<raw_lines, transactions, result, files, locals>>

\* The filters typed after the answer y (main.py:107-115).
TypedFilters(in) ==
    [region |-> strip(in[2]), min_amount |-> strip(in[3]), max_amount |-> strip(in[4])]

\* main.py:106-158, the filter leaves records.
FilterApplied ==
    /\ pc = "filter"
    /\ Len(args.stdin) >= 4
    /\ lower(strip(args.stdin[1])) = <<"y">>
    /\ LET filters  == TypedFilters(args.stdin)
           filtered == ApplyFilters(locals.parsed, filters)
       IN  /\ filtered # <<>>
           /\ locals' = Bind(Bind(locals, "filters", filters), "parsed", filtered)
    /\ pc' = "validate"
    /\ args' = [args EXCEPT !.stdin = SubSeq(@, 5, Len(@))]
    /\ UNCHANGED <<raw_lines, transactions, result, files>>

\* main.py:148-152: no record is left and the user asks for another attempt;
\* parsed has been replaced by the filtered list at line 145.
FilterRetry ==
    /\ pc = "filter"
    /\ Len(args.stdin) >= 5
    /\ lower(strip(args.stdin[1])) = <<"y">>
    /\ lower(strip(args.stdin[5])) = <<"y">>
    /\ LET filters  == TypedFilters(args.stdin)
           filtered == ApplyFilters(locals.parsed, filters)
       IN  /\ filtered = <<>>
           /\ locals' = Bind(Bind(locals, "filters", filters), "parsed", filtered)
    /\ args' = [args EXCEPT !.stdin = SubSeq(@, 6, Len(@))]
    /\ UNCHANGED <<pc, raw_lines, transactions, result, files>>

\* main.py:153-156: no record is left and the user gives up; main logs and
\* returns.
FilterAbort ==
    /\ pc = "filter"
    /\ Len(args.stdin) >= 5
    /\ lower(strip(args.stdin[1])) = <<"y">>
    /\ lower(strip(args.stdin[5])) # <<"y">>
    /\ LET filters  == TypedFilters(args.stdin)
           filtered == ApplyFilters(locals.parsed, filters)
       IN  /\ filtered = <<>>
           /\ Exit(0,
                   Bind(Bind(locals, "filters", filters), "parsed", filtered),
                   log_run(files, Now, filters, 0, 0,
                              Some(<<"No transactions after filter">>)))
    /\ args' = [args EXCEPT !.stdin = SubSeq(@, 6, Len(@))]
    /\ UNCHANGED <<raw_lines, transactions>>

\* main.py:165-234: validation, the analysis and the log row of the run.
ValidateAndAnalyze ==
    /\ pc = "validate"
    /\ LET split_  == validate_transactions(locals.parsed)
           bound   == Bind(Bind(locals, "valid", split_.valid), "invalid", split_.invalid)
       IN  IF split_.valid # <<>> /\ AnalysisRaises(split_.valid)
           THEN /\ Raise(bound, <<"KeyError">>)
                /\ UNCHANGED files
           ELSE /\ pc' = "fetch"
                /\ locals' = Bind(bound, "analysis",
                                  IF split_.valid = <<>> THEN EmptyAnalysis
                                  ELSE Analysis(split_.valid))
                /\ files' = log_run(files, Now, locals.filters,
                                    Len(split_.valid), Len(split_.invalid), None)
    /\ UNCHANGED <<raw_lines, transactions, args, result>>

\* main.py:238-244
FetchProducts ==
    /\ pc = "fetch"
    /\ \E response \in ApiResponses :
          /\ locals' = Bind(locals, "api_products", fetch_all_products(response))
          /\ args' = [args EXCEPT !.response = response]
    /\ pc' = "enrich"
    /\ UNCHANGED <<raw_lines, transactions, result, files>>

\* main.py:248-260.  enrich_sales_data changes the dicts of valid and writes
\* the enriched file; main then writes the file again.
Enrich ==
    /\ pc = "enrich"
    /\ LET product_map == create_product_mapping(locals.api_products)
           enriched    == enrich_sales_data(locals.valid, product_map).value
           saved       == [path \in DOMAIN files \cup {EnrichedFile} |->
                              IF path = EnrichedFile THEN save_enriched_data(enriched)
                              ELSE files[path]]
       IN  /\ locals' = Bind(Bind(Bind(locals, "product_map", product_map),
                                  "enriched", enriched), "valid", enriched)
           /\ files' = WriteEnrichedAsDicts(saved, enriched)
    /\ pc' = "report"
    /\ UNCHANGED <<raw_lines, transactions, args, result>>

\* main.py:275-280
Report ==
    /\ pc = "report"
    /\ IF locals.valid = <<>>
       THEN UNCHANGED files
       ELSE files' = generate_sales_report(files, locals.valid, locals.enriched, Now)
    /\ pc' = "outputs"
    /\ UNCHANGED <<raw_lines, transactions, args, result, locals>>

\* main.py:287-324, after which main returns.
Outputs ==
    /\ pc = "outputs"
    /\ LET peak_day == find_peak_sales_day(locals.enriched)
           bound    == Bind(Bind(locals, "total_rev_value",
                                 calculate_total_revenue(locals.valid).value),
                            "daily_trend", daily_sales_trend(locals.enriched).items)
       IN  IF peak_day.raised
           THEN /\ Raise(bound, <<"max() arg is an empty sequence">>)
                /\ UNCHANGED <<files, result>>
           ELSE Exit(0,
                     Bind(Bind(bound, "peak_day", peak_day), "low_products_enriched",
                          low_performing_products(locals.enriched, 10).rows),
                     files)
    /\ UNCHANGED <<raw_lines, transactions, args>>

\* The handler exiting without writing to the log.
HandleError_NoLog ==
    /\ pc = "except"
    /\ Exit(1, locals, files)
    /\ UNCHANGED <<raw_lines, transactions, args>>

\* main.py:326-339
HandleError ==
    /\ pc = "except"
    /\ Exit(1, locals,
            log_run(files, Now, locals.filters,
                    Len(get(locals, "valid", <<>>)),
                    Len(get(locals, "invalid", <<>>)),
                    Some(locals.e)))
    /\ UNCHANGED <<raw_lines, transactions, args>>

\* The program is run again: the same sales file, the same answers.
RunAgain ==
    /\ pc = "exit"
    /\ Len(result) < MaxRuns
    /\ pc' = "main"
    /\ locals' = [filters |-> NoFilters]
    /\ args' = [args EXCEPT !.stdin = args.script, !.response = NoResponse]
    /\ UNCHANGED <<raw_lines, transactions, result, files>>

NextMain ==
    \/ ReadAndParse
    \/ FilterEndOfInput
    \/ FilterAskAgain
    \/ FilterNone
    \/ FilterApplied
    \/ FilterRetry
    \/ FilterAbort
    \/ ValidateAndAnalyze
    \/ FetchProducts
    \/ Enrich
    \/ Report
    \/ Outputs
    \/ HandleError
    \/ RunAgain

SpecMain == InitMain /\ [][NextMain]_vars

\* The run that has just ended went through every stage and returned.
Completed ==
    /\ pc = "exit"
    /\ result[Len(result)].status = 0
    /\ "peak_day" \in DOMAIN locals

(***************************************************************************)
(* C11.  When a run that went through every stage has ended, the enriched  *)
(* file is the 12-column header line followed by one pipe-delimited line   *)
(* per enriched transaction, a null field written as the empty string.     *)
(***************************************************************************)
C11_EnrichedFileFormat ==
    Completed =>
        /\ EnrichedFile \in DOMAIN files
        /\ Len(files[EnrichedFile]) = Len(locals.enriched) + 1
        /\ files[EnrichedFile][1] = join(header, "|")
        /\ \A i \in 1..Len(locals.enriched) :
               /\ Len(split(files[EnrichedFile][i + 1], "|")) = Len(header)
               /\ files[EnrichedFile][i + 1] = Row(locals.enriched[i])

(***************************************************************************)
(* C13.  When the pipeline has been run twice on the same sales file with  *)
(* the same answers, both runs having reached the analysis, the two runs   *)
(* computed the same aggregates and the second run added exactly one row   *)
(* to the audit log.                                                       *)
(***************************************************************************)
C13_TwoRuns ==
    /\ pc = "exit"
    /\ Len(result) = 2
    /\ result[1].analysis.some
    /\ result[2].analysis.some

C13_SameAggregates == result[1].analysis.val = result[2].analysis.val

C13_OneMoreRow == Len(result[2].log) = Len(result[1].log) + 1

C13_Idempotent == C13_TwoRuns => (C13_SameAggregates /\ C13_OneMoreRow)

(***************************************************************************)
(* C14.  A run that goes through every stage ends with exit status 0; a    *)
(* run in which a stage raises ends with a non-zero status, and before it  *)
(* exits one row is appended to the audit log that carries the error       *)
(* message and the numbers of valid and invalid transactions known when    *)
(* the error was raised (0 and 0 before validation).                       *)
(***************************************************************************)
C14_Last == result[Len(result)]

C14_Status ==
    pc = "exit" =>
        /\ "peak_day" \in DOMAIN locals => C14_Last.status = 0
        /\ "e" \in DOMAIN locals <=> C14_Last.status # 0

C14_ErrorRow(row, ls) ==
    LET columns == split(row, ",") IN
    /\ Len(columns) = 7
    /\ columns[2] = ls.filters.region
    /\ columns[5] = IntStr(IF "valid" \in DOMAIN ls THEN Len(ls.valid) ELSE 0)
    /\ columns[6] = IntStr(IF "invalid" \in DOMAIN ls THEN Len(ls.invalid) ELSE 0)
    /\ columns[7] = ls.e

C14_ErrorLogged ==
    pc = "except" =>
        /\ pc' = "exit"
        /\ Len(LogRows(files')) = Len(LogRows(files)) + 1
        /\ SubSeq(LogRows(files'), 1, Len(LogRows(files))) = LogRows(files)
        /\ C14_ErrorRow(LogRows(files')[Len(LogRows(files'))], locals)

C14_ExitStatus == []C14_Status /\ [][C14_ErrorLogged]_vars

\* A run that raised after validation: one invalid transaction was counted and
\* the last row of the log carries the message.
C14_Witness ==
    /\ pc = "exit"
    /\ C14_Last.status = 1
    /\ "invalid" \in DOMAIN locals
    /\ Len(locals.invalid) = 1
    /\ C14_ErrorRow(LogRows(files)[Len(LogRows(files))], locals)

(***************************************************************************)
(* C15.  When the request for the catalog fails, fetch_all_products        *)
(* returns the empty list, the product mapping built from it is empty,     *)
(* every valid transaction is enriched with API_Match = false and null API *)
(* fields, and the run goes on from the fetch to the enrichment and from   *)
(* the enrichment to the report stage.                                     *)
(***************************************************************************)
C15_FetchFailed ==
    /\ pc \in {"enrich", "report", "outputs"}
    /\ ~args.response.ok

C15_Degraded ==
    C15_FetchFailed =>
        /\ locals.api_products = <<>>
        /\ create_product_mapping(locals.api_products) = EmptyMapping
        /\ pc \in {"report", "outputs"} =>
               /\ DOMAIN locals.product_map = {}
               /\ Len(locals.enriched) = Len(locals.valid)
               /\ \A i \in 1..Len(locals.enriched) : C10_Unmatched(locals.enriched[i])

C15_Continues ==
    /\ pc = "fetch" => pc' = "enrich"
    /\ pc = "enrich" => pc' = "report"

C15_GracefulFetchFailure == []C15_Degraded /\ [][C15_Continues]_vars

\* The report stage reached after a failed fetch, with two transactions
\* enriched and neither matched.
C15_Witness ==
    /\ C15_FetchFailed
    /\ pc = "outputs"
    /\ Len(locals.enriched) = 2
    /\ ReportFile \in DOMAIN files
    /\ \A i \in 1..2 : ~locals.enriched[i].API_Match

(***************************************************************************)
(* C16.  A run that ends with exit status 0 leaves output/report.txt with  *)
(* the lines "Sales Summary Report", "Top Products:", "Top Customers:" and *)
(* "Regional Sales:", and output/validation_summary.txt with its three     *)
(* summary lines.                                                          *)
(***************************************************************************)
SummaryReportFile == "output/report.txt"
ValidationSummaryFile == "output/validation_summary.txt"

C16_HasLine(path, text) ==
    \E i \in 1..Len(files[path]) :
        Len(files[path][i]) >= 1 /\ files[path][i][1] = text

C16_OutputFiles ==
    (pc = "exit" /\ result[Len(result)].status = 0) =>
        /\ SummaryReportFile \in DOMAIN files
        /\ ValidationSummaryFile \in DOMAIN files
        /\ \A text \in {"Sales Summary Report", "Top Products:", "Top Customers:",
                        "Regional Sales:"} : C16_HasLine(SummaryReportFile, text)
        /\ \A text \in {"Total records parsed: ", "Invalid records removed: ",
                        "Valid records after cleaning: "} :
               C16_HasLine(ValidationSummaryFile, text)

(***************************************************************************)
(* C17.  low_performing_products returns one row for each product whose    *)
(* Quantity summed over the set is strictly below the threshold and for no *)
(* other product (a total equal to the threshold is left out); the row     *)
(* carries that summed Quantity and the product's summed Revenue (the      *)
(* float sum in input order, the exact sum when no addition rounds); the   *)
(* rows are in ascending order of summed Quantity.                         *)
(***************************************************************************)
RECURSIVE C17_Quantity(_, _)
C17_Quantity(name, k) ==
    IF k = 0 THEN 0
    ELSE C17_Quantity(name, k - 1)
             + (IF transactions[k].ProductName = name THEN transactions[k].Quantity ELSE 0)

RECURSIVE C17_Revenue(_, _)
C17_Revenue(name, k) ==
    IF k = 0 THEN 0
    ELSE IF transactions[k].ProductName = name
         THEN fl(C17_Revenue(name, k - 1)
                 + fl(transactions[k].Quantity * transactions[k].UnitPrice))
         ELSE C17_Revenue(name, k - 1)

C17_Names == {transactions[i].ProductName : i \in 1..Len(transactions)}

C17_LowProducts ==
    pc = "low_performing_products" =>
        LET rows == result.rows
            n    == Len(transactions)
        IN  /\ ~result.raised
            /\ {rows[i].ProductName : i \in 1..Len(rows)}
                   = {name \in C17_Names : C17_Quantity(name, n) < args.threshold}
            /\ \A i, j \in 1..Len(rows) :
                   rows[i].ProductName = rows[j].ProductName => i = j
            /\ \A i \in 1..Len(rows) :
                   /\ rows[i].quantity = C17_Quantity(rows[i].ProductName, n)
                   /\ rows[i].revenue = C17_Revenue(rows[i].ProductName, n)
                   /\ ExactlySummable(transactions) =>
                          rows[i].revenue =
                              ExactSumOver(transactions,
                                           {k \in 1..n : transactions[k].ProductName
                                                             = rows[i].ProductName})
            /\ \A i, j \in 1..Len(rows) : i < j => rows[i].quantity <= rows[j].quantity

\* Threshold 10 and three products: the one of total 10 is left out, the two
\* returned have different totals.
C17_Witness ==
    /\ pc = "low_performing_products"
    /\ args.threshold = 10
    /\ Cardinality(C17_Names) = 3
    /\ \E name \in C17_Names : C17_Quantity(name, Len(transactions)) = 10
    /\ Len(result.rows) = 2
    /\ result.rows[1].quantity < result.rows[2].quantity

(***************************************************************************)
(* C18.  For a non-empty set find_peak_sales_day returns a Date whose      *)
(* summed revenue is the largest of all dates, with that revenue and the   *)
(* number of transactions of that date; when several dates have the        *)
(* largest revenue the one returned is the smallest of them in string      *)
(* order.                                                                  *)
(***************************************************************************)
RECURSIVE C18_Revenue(_, _)
C18_Revenue(date, k) ==
    IF k = 0 THEN 0
    ELSE IF transactions[k].Date = date
         THEN fl(C18_Revenue(date, k - 1)
                 + fl(transactions[k].Quantity * transactions[k].UnitPrice))
         ELSE C18_Revenue(date, k - 1)

C18_Dates == {transactions[i].Date : i \in 1..Len(transactions)}

C18_DayRevenue(date) == C18_Revenue(date, Len(transactions))

C18_PeakDay ==
    (pc = "find_peak_sales_day" /\ transactions # <<>>) =>
        /\ ~result.raised
        /\ result.date \in C18_Dates
        /\ result.revenue = C18_DayRevenue(result.date)
        /\ result.transaction_count =
               Cardinality({k \in 1..Len(transactions) : transactions[k].Date = result.date})
        /\ \A date \in C18_Dates :
               /\ C18_DayRevenue(date) <= result.revenue
               /\ (C18_DayRevenue(date) = result.revenue /\ date # result.date)
                      => LexLess(result.date, date)

\* Two dates with the same, largest revenue; the one that comes later in the
\* input is returned, being the smaller string.
C18_Witness ==
    /\ pc = "find_peak_sales_day"
    /\ Len(transactions) >= 2
    /\ transactions[1].Date # result.date
    /\ C18_DayRevenue(transactions[1].Date) = result.revenue
    /\ \A date \in C18_Dates : C18_DayRevenue(date) <= result.revenue

(***************************************************************************)
(* C19.  For a non-empty set and n >= 0, top_products returns min(n,       *)
(* number of distinct ProductNames) rows, no product twice, in descending  *)
(* order of summed Revenue, every product left out having a summed Revenue *)
(* no greater than that of every product returned; a row carries the sum   *)
(* of Quantity and of Revenue over exactly the transactions of its         *)
(* product (the float sum in row order, the exact sum when no addition    *)
(* rounds).  top_customers does the same by CustomerID, with TotalSpent    *)
(* and the number of the customer's transactions (Orders).                 *)
(***************************************************************************)
\* The summed revenue of a key as one summation algorithm computes it.
C19_Revenue(algorithm, field, key) ==
    group_sum(algorithm, Amounts(RowsWith(transactions, field, key)))

C19_Of(field, key) == {k \in 1..Len(transactions) : transactions[k][field] = key}

C19_Keys(field) == {transactions[k][field] : k \in 1..Len(transactions)}

C19_Min(a, b) == IF a < b THEN a ELSE b

C19_TopRows(field, revenue) ==
    LET rows == result.rows IN
    /\ ~result.raised
    /\ Len(rows) = C19_Min(args.n, Cardinality(C19_Keys(field)))
    /\ \A i, j \in 1..Len(rows) : rows[i][field] = rows[j][field] => i = j
    /\ \A i \in 1..Len(rows) : rows[i][field] \in C19_Keys(field)
    /\ \A i, j \in 1..Len(rows) : i < j => rows[i][revenue] >= rows[j][revenue]
    /\ \E algorithm \in SumAlgorithms :
           /\ \A i \in 1..Len(rows) :
                  rows[i][revenue] = C19_Revenue(algorithm, field, rows[i][field])
           /\ \A key \in C19_Keys(field) \ {rows[i][field] : i \in 1..Len(rows)} :
                  \A i \in 1..Len(rows) :
                      C19_Revenue(algorithm, field, key) <= rows[i][revenue]
    /\ ExactlySummable(transactions) =>
           \A i \in 1..Len(rows) :
               rows[i][revenue] = ExactSumOver(transactions, C19_Of(field, rows[i][field]))

C19_TopN ==
    /\ (pc = "top_products" /\ transactions # <<>>) =>
           /\ C19_TopRows("ProductName", "Revenue")
           /\ \A i \in 1..Len(result.rows) :
                  result.rows[i].Quantity =
                      FoldSumInt([k \in 1..Len(transactions) |->
                                     IF transactions[k].ProductName
                                            = result.rows[i].ProductName
                                     THEN transactions[k].Quantity ELSE 0])
    /\ (pc = "top_customers" /\ transactions # <<>>) =>
           /\ C19_TopRows("CustomerID", "TotalSpent")
           /\ \A i \in 1..Len(result.rows) :
                  result.rows[i].Orders
                      = Cardinality(C19_Of("CustomerID", result.rows[i].CustomerID))

\* n = 1 and two products: the one returned sums two transactions and the
\* one left out has a smaller revenue.
C19_Witness ==
    /\ pc = "top_products"
    /\ args.n = 1
    /\ Cardinality(C19_Keys("ProductName")) = 2
    /\ Len(result.rows) = 1
    /\ Cardinality(C19_Of("ProductName", result.rows[1].ProductName)) = 2
    /\ \E key \in C19_Keys("ProductName") :
           \A algorithm \in SumAlgorithms :
               C19_Revenue(algorithm, "ProductName", key) < result.rows[1].Revenue

(***************************************************************************)
(* C20.  For a non-empty set daily_sales_stats and daily_sales_trend each  *)
(* hold one entry per distinct Date, in ascending string order of Date,    *)
(* with the number of the date's transactions and of its distinct          *)
(* CustomerIDs, and a Revenue that is the sum of the date's amounts; the   *)
(* two give the same dates in the same order with the same two counts, and *)
(* the same Revenue whenever no addition rounds (each is a float sum in    *)
(* row order, and the two need not round alike).                           *)
(***************************************************************************)
C20_Dates == {transactions[k].Date : k \in 1..Len(transactions)}

C20_Of(date) == {k \in 1..Len(transactions) : transactions[k].Date = date}

C20_Customers(date) == {transactions[k].CustomerID : k \in C20_Of(date)}

\* entries: a sequence of [Date, Revenue, Transactions, UniqueCustomers].
C20_Shape(entries) ==
    /\ {entries[i].Date : i \in 1..Len(entries)} = C20_Dates
    /\ Len(entries) = Cardinality(C20_Dates)
    /\ \A i \in 1..(Len(entries) - 1) : LexLess(entries[i].Date, entries[i + 1].Date)
    /\ \A i \in 1..Len(entries) :
           /\ entries[i].Transactions = Cardinality(C20_Of(entries[i].Date))
           /\ entries[i].UniqueCustomers = Cardinality(C20_Customers(entries[i].Date))
           /\ \E algorithm \in SumAlgorithms :
                  entries[i].Revenue =
                      group_sum(algorithm,
                                Amounts(RowsWith(transactions, "Date", entries[i].Date)))
           /\ ExactlySummable(transactions) =>
                  entries[i].Revenue = ExactSumOver(transactions, C20_Of(entries[i].Date))

\* The items of daily_sales_trend under the column names of daily_sales_stats.
C20_AsRows(items) ==
    [i \in 1..Len(items) |->
        [Date |-> items[i].Date, Revenue |-> items[i].revenue,
         Transactions |-> items[i].transaction_count,
         UniqueCustomers |-> items[i].unique_customers]]

C20_Trend == C20_AsRows(daily_sales_trend(transactions).items)

C20_SameButRevenue(rows, other) ==
    /\ Len(rows) = Len(other)
    /\ \A i \in 1..Len(rows) :
           /\ rows[i].Date = other[i].Date
           /\ rows[i].Transactions = other[i].Transactions
           /\ rows[i].UniqueCustomers = other[i].UniqueCustomers

C20_Case(name) == pc = name /\ transactions # <<>>

\* The claim as stated: the same three values for every set.
C20_Original ==
    /\ C20_Case("daily_sales_stats") =>
           (~result.raised /\ C20_Shape(result.rows) /\ result.rows = C20_Trend)
    /\ C20_Case("daily_sales_trend") =>
           (~result.raised /\ C20_Shape(C20_AsRows(result.items)))

\* The claim as amended.
C20_DailyStatsAgree ==
    /\ C20_Case("daily_sales_stats") =>
           /\ ~result.raised
           /\ C20_Shape(result.rows)
           /\ C20_SameButRevenue(result.rows, C20_Trend)
           /\ ExactlySummable(transactions) => result.rows = C20_Trend
    /\ C20_Case("daily_sales_trend") =>
           /\ ~result.raised
           /\ C20_Shape(C20_AsRows(result.items))

\* Three transactions on two dates given later date first: the first row is
\* the date that is the smaller string, with two transactions of one customer.
C20_Witness ==
    /\ C20_Case("daily_sales_stats")
    /\ Len(transactions) = 3
    /\ ExactlySummable(transactions)
    /\ Len(result.rows) = 2
    /\ transactions[1].Date = result.rows[2].Date
    /\ result.rows[2].Transactions = 2
    /\ result.rows[2].UniqueCustomers = 1
    /\ result.rows = C20_Trend

(***************************************************************************)
(* utils/file_handler.py: clean_sales_data.                                *)
(*                                                                         *)
(* A DataFrame with the eight columns of a parsed record is the sequence   *)
(* of its rows.  A cell of TransactionID, ProductID, CustomerID or Region  *)
(* is None when the value is missing (NaN) and Some(text) otherwise: the   *)
(* empty text is a value, not a missing one.  Boolean indexing and dropna  *)
(* keep the remaining rows in their order.                                 *)
(***************************************************************************)
\* Line 53: dropna(subset=["ProductID", "CustomerID", "Region"]).
dropna_subset == {"ProductID", "CustomerID", "Region"}

NotMissing(row) == \A col \in dropna_subset : row[col].some

\* Line 56: astype(str) writes a missing value as "nan".
astype_str(cell) == IF cell.some THEN cell.val ELSE <<"n", "a", "n">>

\* Line 56 with the test on the TransactionID left out.
HasTPrefix_Any(row) == TRUE

\* Line 56: df["TransactionID"].astype(str).str.startswith("T")
HasTPrefix(row) == startswith(astype_str(row.TransactionID), "T")

\* Line 59: (df["UnitPrice"] > 0) & (df["Quantity"] > 0)
PositivePriceAndQuantity(row) == row.UnitPrice > 0 /\ row.Quantity > 0

\* Line 62: str.lower().str.replace(",", "").str.strip()
NormalizeName(name) == strip(remove(lower(name), ","))

\* Lines 62 and 65: the row with its name normalized and its Revenue column.
CleanRow(row) ==
    [col \in DOMAIN row \cup {"Revenue"} |->
        IF col = "Revenue" THEN Amount(row)
        ELSE IF col = "ProductName" THEN NormalizeName(row.ProductName)
        ELSE row[col]]

\* Lines 69-73: the three lines of the summary.
summary_text(total_records, invalid_removed, valid_records) ==
    << <<"Total records parsed: ">> \o IntStr(total_records),
       <<"Invalid records removed: ">> \o IntStr(invalid_removed),
       <<"Valid records after cleaning: ">> \o IntStr(valid_records) >>

\* Lines 46-80: the returned frame and the files after the call.
clean_sales_data(fs, df) ==
    LET total_records == Len(df)
        dropped == SelectSeq(df, NotMissing)
        prefixed == SelectSeq(dropped, HasTPrefix)
        positive == SelectSeq(prefixed, PositivePriceAndQuantity)
        cleaned == [i \in 1..Len(positive) |-> CleanRow(positive[i])]
        invalid_removed == total_records - Len(cleaned)
    IN  [df |-> cleaned,
         files |-> [path \in DOMAIN fs \cup {ValidationSummaryFile} |->
                       IF path = ValidationSummaryFile
                       THEN summary_text(total_records, invalid_removed, Len(cleaned))
                       ELSE fs[path]]]

\* The frames given to clean_sales_data: rows that pass, rows that fail one
\* test each, ids without the 'P' and 'C' prefixes, an empty ProductID, a
\* name with a comma, capitals and spaces.
CleanPool ==
    { Tx(Some(<<"T", "1">>), <<"9">>, Some(<<"P", "1">>), <<"L", ",", "a", " ">>,
         2, 10, Some(<<"C", "1">>), Some(<<"N">>)),
      Tx(Some(<<"X", "2">>), <<"9">>, Some(<<"P", "2">>), <<"M">>,
         5, 15, Some(<<"C", "2">>), Some(<<"S">>)),
      Tx(Some(<<"T", "3">>), <<"9">>, Some(<<"P", "3">>), <<"K">>,
         0, 20, Some(<<"C", "3">>), Some(<<"W">>)),
      Tx(Some(<<"T", "4">>), <<"9">>, Some(<<"P", "4">>), <<"K">>,
         1, -5, Some(<<"C", "3">>), Some(<<"W">>)),
      Tx(Some(<<"T", "5">>), <<"9">>, None, <<"K">>,
         1, 10, Some(<<"C", "3">>), Some(<<"W">>)),
      Tx(Some(<<"T", "6">>), <<"9">>, Some(<<"P", "3">>), <<"K">>,
         1, 10, None, Some(<<"W">>)),
      Tx(Some(<<"T", "7">>), <<"9">>, Some(<<"P", "3">>), <<"K">>,
         1, 10, Some(<<"C", "3">>), None),
      Tx(Some(<<"T", "8">>), <<"9">>, Some(<<"Q", "9">>), <<" ", "J">>,
         3, 11, Some(<<"Z", "1">>), Some(<<"E">>)),
      Tx(None, <<"9">>, Some(<<"P", "3">>), <<"K">>,
         1, 10, Some(<<"C", "3">>), Some(<<"W">>)),
      Tx(Some(<<"T", "9">>), <<"9">>, Some(<<>>), <<"K">>,
         1, 10, Some(<<"C", "3">>), Some(<<"W">>)) }

MaxRowsClean == 2     \* most rows of a frame

\* A summary left by an earlier call.
StaleSummary == [path \in {ValidationSummaryFile} |-> summary_text(7, 3, 4)]

InitClean ==
    /\ pc = "start"
    /\ raw_lines = <<>>
    /\ transactions = <<>>
    /\ \E df \in SeqUpTo(CleanPool, MaxRowsClean) : args = [df |-> df]
    /\ result = NoResult
    /\ files \in {NoFiles, StaleSummary}
    /\ locals = NoLocals

CleanSalesData ==
    /\ pc = "start"
    /\ pc' = "clean_sales_data"
    /\ result' = [df |-> clean_sales_data(files, args.df).df]
    /\ files' = clean_sales_data(files, args.df).files
    /\ UNCHANGED <<raw_lines, transactions, args, locals>>

NextClean == CleanSalesData

SpecClean == InitClean /\ [][NextClean]_vars

(***************************************************************************)
(* C21.  clean_sales_data keeps a row if and only if its ProductID,        *)
(* CustomerID and Region are not missing, its TransactionID starts with    *)
(* 'T', its UnitPrice > 0 and its Quantity > 0, whatever the prefixes of   *)
(* ProductID and CustomerID; the kept rows stay in their order, each with  *)
(* Revenue = Quantity * UnitPrice (the float product); and the summary     *)
(* file holds three counts with parsed = removed + valid, parsed being the *)
(* number of rows given and valid the number of rows returned.             *)
(***************************************************************************)
C21_Keeps(row) ==
    /\ row.ProductID.some /\ row.CustomerID.some /\ row.Region.some
    /\ row.TransactionID.some
    /\ Len(row.TransactionID.val) >= 1 /\ row.TransactionID.val[1] = "T"
    /\ row.UnitPrice > 0
    /\ row.Quantity > 0

C21_Identity(row) ==
    <<row.TransactionID, row.Date, row.ProductID, row.Quantity, row.UnitPrice,
      row.CustomerID, row.Region>>

\* The number written at the end of line i of the summary file.
C21_Count(i) == DigitsValue(Tail(files[ValidationSummaryFile][i]))

C21_CleanKeepsValidRows ==
    pc = "clean_sales_data" =>
        LET kept == SelectSeq(args.df, C21_Keeps)
        IN  /\ Len(result.df) = Len(kept)
            /\ \A i \in 1..Len(kept) :
                   /\ C21_Identity(result.df[i]) = C21_Identity(kept[i])
                   /\ result.df[i].Revenue = fl(kept[i].Quantity * kept[i].UnitPrice)
            /\ ValidationSummaryFile \in DOMAIN files
            /\ Len(files[ValidationSummaryFile]) = 3
            /\ files[ValidationSummaryFile][1][1] = "Total records parsed: "
            /\ files[ValidationSummaryFile][2][1] = "Invalid records removed: "
            /\ files[ValidationSummaryFile][3][1] = "Valid records after cleaning: "
            /\ C21_Count(1) = Len(args.df)
            /\ C21_Count(3) = Len(result.df)
            /\ C21_Count(1) = C21_Count(2) + C21_Count(3)

\* A frame of a row with foreign id prefixes and a row with a foreign
\* TransactionID: the first is kept with its revenue, the second removed.
C21_Witness ==
    /\ pc = "clean_sales_data"
    /\ Len(args.df) = 2
    /\ args.df[1].ProductID = Some(<<"Q", "9">>)
    /\ args.df[2].TransactionID = Some(<<"X", "2">>)
    /\ Len(result.df) = 1
    /\ result.df[1].Revenue = fl(33)
    /\ C21_Count(2) = 1

(***************************************************************************)
(* C22.  Every record parse_transactions produces has, of the 8 fields of  *)
(* its line: ProductName = field 3 with every ',' removed and then the     *)
(* surrounding whitespace trimmed, Quantity = the integer value of field   *)
(* 4, UnitPrice = the float value of field 5 with every ',' removed, and   *)
(* the five other fields as they stand in the line.                        *)
(***************************************************************************)
C22_Fields(i) == split(SelectSeq(raw_lines, WellFormedLine)[i], "|")

C22_NoComma(text) == SelectSeq(text, LAMBDA ch : ch # ",")

C22_FieldConversions ==
    pc = "parse_transactions" =>
        \A i \in 1..Len(result.value) :
            LET rec == result.value[i]
                f == C22_Fields(i)
            IN  /\ DOMAIN rec = {"TransactionID", "Date", "ProductID", "ProductName",
                                 "Quantity", "UnitPrice", "CustomerID", "Region"}
                /\ rec.ProductName = strip(C22_NoComma(f[4]))
                /\ \A k \in 1..Len(rec.ProductName) : rec.ProductName[k] # ","
                /\ rec.Quantity = IntValue(f[5])
                /\ rec.UnitPrice = FloatValue(C22_NoComma(f[6]))
                /\ rec.TransactionID = f[1]
                /\ rec.Date = f[2]
                /\ rec.ProductID = f[3]
                /\ rec.CustomerID = f[7]
                /\ rec.Region = f[8]

\* Two lines kept: a name "M,W" that becomes "MW" beside the price "1,2"
\* that becomes 12.0, and a name "K ," whose space is trimmed once the comma
\* is gone.
C22_Witness ==
    /\ pc = "parse_transactions"
    /\ Len(raw_lines) = 2
    /\ Len(result.value) = 2
    /\ C22_Fields(1)[4] = <<"M", ",", "W">>
    /\ C22_Fields(1)[6] = <<"1", ",", "2">>
    /\ result.value[1].ProductName = <<"M", "W">>
    /\ result.value[1].UnitPrice = 120
    /\ result.value[1].Quantity = 2
    /\ C22_Fields(2)[4] = <<"K", " ", ",">>
    /\ result.value[2].ProductName = <<"K">>

(***************************************************************************)
(* C23.  In the filter loop of main, an attempt made after a filter left   *)
(* no record and the user asked for different filters is applied to the    *)
(* full list of parsed transactions: whenever the loop has applied the     *)
(* filters last typed, the records that remain are those of the originally *)
(* parsed list that pass these filters.                                    *)
(***************************************************************************)
C23_Original == parse_transactions(locals.raw_data)

C23_RetryOnFullSet ==
    (pc \in {"filter", "validate"} /\ "parsed" \in DOMAIN locals) =>
        locals.parsed = ApplyFilters(C23_Original, locals.filters)

(***************************************************************************)
(* C24.  A run of main in which validate_transactions returned no valid    *)
(* transaction writes no sales report, writes no row with an error to the  *)
(* audit log and ends with exit status 0.                                  *)
(***************************************************************************)
C24_NoValid == "valid" \in DOMAIN locals /\ locals.valid = <<>>

C24_LastRow == split(files[LogFile][Len(files[LogFile])], ",")

C24_NoValidEndsCleanly ==
    (pc = "exit" /\ C24_NoValid) =>
        /\ ReportFile \notin DOMAIN files
        /\ result[Len(result)].status = 0
        /\ LogFile \in DOMAIN files
        /\ C24_LastRow[7] = <<>>

(***************************************************************************)
(* C25.  On every call of validate_and_filter that returns, the summary    *)
(* satisfies total_input = invalid + filtered_by_region +                  *)
(* filtered_by_amount + final_count, the five counts are not negative,     *)
(* final_count is the length of the returned list, and the returned list   *)
(* is a subsequence of the input: its records, in the order of the input.  *)
(***************************************************************************)
RECURSIVE C25_IsSubsequence(_, _)
C25_IsSubsequence(sub, full) ==
    IF sub = <<>> THEN TRUE
    ELSE IF full = <<>> THEN FALSE
    ELSE IF Head(sub) = Head(full) THEN C25_IsSubsequence(Tail(sub), Tail(full))
    ELSE C25_IsSubsequence(sub, Tail(full))

C25_SummaryAccounting ==
    Returned =>
        LET summary == result.summary IN
        /\ summary.total_input = summary.invalid + summary.filtered_by_region
                                 + summary.filtered_by_amount + summary.final_count
        /\ \A count \in DOMAIN summary : summary[count] >= 0
        /\ summary.total_input = Len(transactions)
        /\ summary.final_count = Len(result.filtered)
        /\ C25_IsSubsequence(result.filtered, transactions)

\* Three valid records under a region and an amount bound: one removed by
\* the region step, one by the amount step, one returned.
C25_Witness ==
    /\ Returned
    /\ Len(transactions) = 3
    /\ result.summary.invalid = 0
    /\ result.summary.filtered_by_region = 1
    /\ result.summary.filtered_by_amount = 1
    /\ result.summary.final_count = 1
    /\ result.filtered = <<transactions[2]>>

=============================================================================
